---- MODULE Spec2Model ----
(***************************************************************************)
(* Verification model of threadmine: the persisted rate limiter            *)
(* (internal/db/ratelimit.go over the rate_limits table of schema.sql),    *)
(* the Slack fetch loop (cmd/mine/commands/fetch.go), the normalized       *)
(* message store, the write-to-temp-then-rename file writers and the       *)
(* chat / issue normalizers.                                               *)
(*                                                                         *)
(* The module holds several specifications over one set of variables;      *)
(* each specification drives one subsystem and leaves the variables of     *)
(* the others unchanged.                                                   *)
(***************************************************************************)
EXTENDS Integers, Sequences, FiniteSets, TLC

VARIABLES
    rate_limits,   \* rows of the rate_limits table, in rowid order
    now,           \* wall clock, in seconds
    ret,           \* the last rate-limiter call and what it returned
    nChecks,       \* CheckRateLimit calls on WsKey in the current window
    pending,       \* an allowed Check on WsKey not yet followed by RecordRequest
    proto,         \* TRUE while the caller followed Check -> Record on WsKey
    canon,         \* canonical messages produced so far, each with its native record
    normErr,       \* the last normalization returned an error
    by_id,         \* normalized/messages/by_id: message id -> the record in <id>.json
    by_date,       \* normalized/messages/by_date: date -> lines of <date>.jsonl
    by_source,     \* normalized/messages/by_source: source -> lines of <source>.jsonl
    messages,      \* rows of the SQLite messages table
    saveErr,       \* the last save returned an error
    dir,           \* directory entries of one persisted file and its .tmp: path -> inode
    inodes,        \* inode -> the chunks it holds
    wpc,           \* writer -> 0 idle, i next write call, Chunks + 1 about to rename
    wfd,           \* writer -> the inode its open descriptor refers to
    observed,      \* what the last reader of the persisted file saw
    pc,            \* where runFetchSlack is: start, search, loop, thread, done
    nMatches,      \* len(searchResult.Messages.Matches)
    idx,           \* the loop's position in the matches, from 1
    cur,           \* the match whose thread is being fetched
    threadsProcessed, \* thread_ts values whose thread was fetched and stored
    messageCount,  \* messages the run counts as stored
    threadCount,   \* threads the run counts as processed
    outcome,       \* running, ok (returned nil) or error (returned an error)
    apiCalls,      \* Slack API calls issued by the run
    rejectedAt,    \* no, or the call the rate limiter rejected: search, thread
    nSaved,        \* SaveMessage calls of the run that returned nil
    nFailed,       \* items of the run that failed (fetch, normalize or save)
    raw_messages,  \* ids in the raw_messages table
    users,         \* ids in the users table
    channels,      \* ids in the channels table
    Nodes,         \* ReplyGraph.Nodes: message id -> node
    Adjacency,     \* ReplyGraph.Adjacency: parent id -> child ids, in insertion order
    ThreadRoots,   \* ReplyGraph.ThreadRoots: root message ids, in insertion order
    added,         \* the messages passed to AddMessage so far, in order
    query,         \* the last graph query and its results
    normLog,       \* normalizations done so far: pipeline, record, time, and the result
    annotations,   \* annotations/messages/<id>/classifications.json: id -> classifications
    classifications, \* rows of the SQLite classifications table
    lastRun,       \* the latest classification run: message, content, context, output
    history,       \* conversations.history of the channel at Slack, oldest first
    cacheFiles,    \* raw/.../channels/<id>/messages: date -> the messageCache in <date>.json
    wall,          \* time.Now() of the message cache, in hours
    gets,          \* the GetMessages calls made so far, in order
    ppc,           \* pipeline invocation -> idle, call (Check passed), record (call succeeded)
    workspace,     \* the messages that exist at Slack during a fetch run
    events,        \* API calls and rate-limiter calls of the fetch run, in order
    results,       \* the search matches the loop has taken up so far
    normalizedMessages, \* the messages normalized and saved by a workspace fetch
    threadContextMap    \* message position -> the ThreadContext assembled for it

cacheVars == <<history, cacheFiles, wall, gets>>
raceVars == <<ppc>>
slackVars == <<workspace, events, results>>
ctxVars == <<normalizedMessages, threadContextMap>>
sideVars == <<cacheVars, raceVars, slackVars, ctxVars>>
graphVars == <<Nodes, Adjacency, ThreadRoots, added, query>>
classVars == <<annotations, classifications, lastRun>>
rlVars == <<rate_limits, now, ret>>
histVars == <<nChecks, pending, proto>>
normVars == <<canon, normErr>>
storeVars == <<by_id, by_date, by_source, messages, saveErr>>
fileVars == <<dir, inodes, wpc, wfd, observed>>
runVars == <<pc, nMatches, idx, cur, threadsProcessed, messageCount, threadCount,
             outcome, apiCalls, rejectedAt, nSaved, nFailed>>
dbVars == <<raw_messages, users, channels>>
fetchVars == <<runVars, dbVars>>

(***************************************************************************)
(* Bounds                                                                  *)
(***************************************************************************)
TickSeconds == 30      \* the clock advances in steps of this many seconds
MaxNow == 90           \* the clock stops here
MaxRecorded == 12      \* RecordRequest is not modelled beyond this count
MaxRows == 2           \* rows the rate_limits table may hold
MaxRecordedRL == 3     \* the same cap where several keys are driven at once
MaxChecks == 12        \* Checks counted per window
MaxLines == 2          \* lines an index file (.jsonl) may hold
Chunks == 2            \* write calls one file's data takes
MaxInodes == 3         \* inodes the model's file system has
MaxMatches == 2        \* matches one search returns
MaxThread == 2         \* messages one thread fetch returns
MaxAdds == 3           \* AddMessage calls on one graph
MaxNorms == 2          \* normalizations in one behaviour
MaxBatch == 4          \* native records normalized in one run

(***************************************************************************)
(* Rate limiter: internal/db/ratelimit.go, schema.sql rate_limits          *)
(***************************************************************************)

\* A nil *string workspace, stored as SQL NULL.
NoWorkspace == "NULL"

DefaultWindow == 60
DefaultMax == 20
DefaultSafety == 10

WsKey == <<"slack", "ws_slack_T1", "search.messages">>
NullKey == <<"slack", NoWorkspace, "search.messages">>
Keys == {WsKey, NullKey}

\* Parameters passed to InitRateLimit, which stores them as given: the
\* ones of the fetch commands, and a shorter window with a safety limit
\* above the maximum.
InitParams == {<<DefaultWindow, DefaultMax, DefaultSafety>>, <<30, 1, 2>>}

\* WHERE source_type = ? AND workspace_id IS ? AND endpoint = ?
\* (IS matches NULL with NULL).
Matches(r, k) ==
    /\ r.source_type = k[1]
    /\ r.workspace_id = k[2]
    /\ r.endpoint = k[3]

\* PRIMARY KEY (source_type, workspace_id, endpoint): a rowid table, so a
\* NULL workspace_id is allowed and NULLs are distinct for uniqueness.
Conflicts(r, k) ==
    /\ r.source_type = k[1]
    /\ r.workspace_id = k[2]
    /\ k[2] # NoWorkspace
    /\ r.endpoint = k[3]

KeyRows(rows, k) == {i \in DOMAIN rows : Matches(rows[i], k)}

\* QueryRow(...).Scan: the first matching row, 0 for sql.ErrNoRows.
SelectRow(rows, k) ==
    IF KeyRows(rows, k) = {} THEN 0
    ELSE CHOOSE i \in KeyRows(rows, k) : \A j \in KeyRows(rows, k) : i <= j

\* INSERT ... VALUES (?, ?, ?, 0, now, ?, ?, ?) ON CONFLICT(...) DO NOTHING
InsertRateLimit(rows, k, w, m, s, t) ==
    IF \E i \in DOMAIN rows : Conflicts(rows[i], k) THEN rows
    ELSE Append(rows, [source_type |-> k[1], workspace_id |-> k[2],
                       endpoint |-> k[3], requests_made |-> 0,
                       window_start |-> t, window_duration_seconds |-> w,
                       max_requests |-> m, safety_limit |-> s])

\* Mutant: the reset moves the window and keeps the count.
ResetWindowRows_KeepCount(rows, k, t) ==
    [i \in DOMAIN rows |->
        IF Matches(rows[i], k)
        THEN [rows[i] EXCEPT !.window_start = t]
        ELSE rows[i]]

\* UPDATE rate_limits SET requests_made = 0, window_start = ? WHERE ...
ResetWindowRows(rows, k, t) ==
    [i \in DOMAIN rows |->
        IF Matches(rows[i], k)
        THEN [rows[i] EXCEPT !.requests_made = 0, !.window_start = t]
        ELSE rows[i]]

\* Mutant: the request is counted on every endpoint of the source.
RecordRows_AnyEndpoint(rows, k) ==
    [i \in DOMAIN rows |->
        IF rows[i].source_type = k[1]
        THEN [rows[i] EXCEPT !.requests_made = @ + 1]
        ELSE rows[i]]

\* UPDATE rate_limits SET requests_made = requests_made + 1 WHERE ...
RecordRows(rows, k) ==
    [i \in DOMAIN rows |->
        IF Matches(rows[i], k)
        THEN [rows[i] EXCEPT !.requests_made = @ + 1]
        ELSE rows[i]]

\* Mutant: the window counted as elapsed at its last second (>= for >).
WindowExpired_Inclusive(r, t) == t >= r.window_start + r.window_duration_seconds

\* now.After(rl.WindowStart.Add(rl.WindowDurationSeconds * time.Second))
WindowExpired(r, t) == t > r.window_start + r.window_duration_seconds

\* Mutant: the limit test off by one (> for >=).
LimitReached_OffByOne(r) == r.requests_made > r.safety_limit

\* rl.RequestsMade >= rl.SafetyLimit
LimitReached(r) == r.requests_made >= r.safety_limit

\* Mutant: Check allows whatever requests_made is.
CheckOutcome_NoLimit(rows, k, t) ==
    LET i == SelectRow(rows, k) IN
    IF i = 0
    THEN [allowed |-> TRUE,
          rows |-> InsertRateLimit(rows, k, DefaultWindow, DefaultMax, DefaultSafety, t)]
    ELSE IF WindowExpired(rows[i], t)
    THEN [allowed |-> TRUE, rows |-> ResetWindowRows(rows, k, t)]
    ELSE [allowed |-> TRUE, rows |-> rows]

\* CheckRateLimit as a function of the table and the clock:
\* the value returned and the table afterwards.
CheckOutcome(rows, k, t) ==
    LET i == SelectRow(rows, k) IN
    IF i = 0
    THEN [allowed |-> TRUE,
          rows |-> InsertRateLimit(rows, k, DefaultWindow, DefaultMax, DefaultSafety, t)]
    ELSE IF WindowExpired(rows[i], t)
    THEN [allowed |-> TRUE, rows |-> ResetWindowRows(rows, k, t)]
    ELSE IF LimitReached(rows[i])
    THEN [allowed |-> FALSE, rows |-> rows]
    ELSE [allowed |-> TRUE, rows |-> rows]

CheckRateLimit(k) ==
    /\ Len(rate_limits) < MaxRows \/ SelectRow(rate_limits, k) # 0
    /\ rate_limits' = CheckOutcome(rate_limits, k, now).rows
    /\ ret' = [op |-> "Check", key |-> k,
               allowed |-> CheckOutcome(rate_limits, k, now).allowed]
    /\ UNCHANGED now

RecordRequest(k, cap) ==
    /\ \A i \in KeyRows(rate_limits, k) : rate_limits[i].requests_made < cap
    /\ rate_limits' = RecordRows(rate_limits, k)
    /\ ret' = [op |-> "Record", key |-> k, allowed |-> TRUE]
    /\ UNCHANGED now

InitRateLimit(k, w, m, s) ==
    /\ Len(rate_limits) < MaxRows \/ \E i \in DOMAIN rate_limits : Conflicts(rate_limits[i], k)
    /\ rate_limits' = InsertRateLimit(rate_limits, k, w, m, s, now)
    /\ ret' = [op |-> "Init", key |-> k, allowed |-> TRUE]
    /\ UNCHANGED now

\* time.Now() moves on between calls.
Tick ==
    /\ now + TickSeconds <= MaxNow
    /\ now' = now + TickSeconds
    /\ UNCHANGED <<rate_limits, ret>>

NoQuery == [root |-> "", asked |-> FALSE]

NoRun == [ran |-> FALSE]

\* Nothing normalized or classified yet; no annotation file, no row.
NothingClassified ==
    /\ normLog = {}
    /\ annotations = <<>>
    /\ classifications = {}
    /\ lastRun = NoRun

\* The hour of the day at which the cache's clock starts.
WallStart == 22

\* A quiet channel, no cache file, no GetMessages call made yet.
EmptyCache ==
    /\ history = <<>>
    /\ cacheFiles = <<>>
    /\ wall = WallStart
    /\ gets = <<>>

\* Pipeline invocations sharing one database.
NProcs == 2
Procs == 1..NProcs

SideInit ==
    /\ EmptyCache
    /\ ppc = [p \in Procs |-> "idle"]
    /\ events = <<>>
    /\ results = {}
    /\ normalizedMessages = <<>>
    /\ threadContextMap = <<>>

\* NewReplyGraph: no nodes, no edges, no roots.
NewReplyGraph ==
    /\ Nodes = <<>>
    /\ Adjacency = <<>>
    /\ ThreadRoots = <<>>
    /\ added = <<>>
    /\ query = NoQuery

NoCall == [op |-> "none", key |-> WsKey, allowed |-> TRUE]

vars == <<rate_limits, now, ret, nChecks, pending, proto, canon, normErr,
          by_id, by_date, by_source, messages, saveErr,
          dir, inodes, wpc, wfd, observed,
          pc, nMatches, idx, cur, threadsProcessed, messageCount, threadCount,
          outcome, apiCalls, rejectedAt, nSaved, nFailed,
          raw_messages, users, channels,
          Nodes, Adjacency, ThreadRoots, added, query,
          normLog, annotations, classifications, lastRun,
          history, cacheFiles, wall, gets, ppc,
          workspace, events, results, normalizedMessages, threadContextMap>>

Writers == {"w1", "w2"}
NoInode == 0

\* An empty database and an empty data directory; no call made yet.
RLInit ==
    /\ rate_limits = <<>>
    /\ now = 0
    /\ ret = NoCall
    /\ nChecks = 0
    /\ pending = FALSE
    /\ proto = TRUE
    /\ canon = {}
    /\ normErr = FALSE
    /\ by_id = <<>>
    /\ by_date = <<>>
    /\ by_source = <<>>
    /\ messages = {}
    /\ saveErr = FALSE
    /\ dir = [p \in {"file", "tmp"} |-> NoInode]
    /\ inodes = [n \in 1..MaxInodes |-> [i \in 1..Chunks |-> [w |-> "none", i |-> 0]]]
    /\ wpc = [w \in Writers |-> 0]
    /\ wfd = [w \in Writers |-> NoInode]
    /\ observed = "none"
    /\ pc = "start"
    /\ nMatches = 0
    /\ idx = 0
    /\ cur = [kind |-> "slack", team |-> "T1", channel |-> "C1", ts |-> "", thread_ts |-> ""]
    /\ threadsProcessed = {}
    /\ messageCount = 0
    /\ threadCount = 0
    /\ outcome = "running"
    /\ apiCalls = 0
    /\ rejectedAt = "no"
    /\ nSaved = 0
    /\ nFailed = 0
    /\ raw_messages = {}
    /\ users = {}
    /\ channels = {}
    /\ NewReplyGraph
    /\ NothingClassified
    /\ SideInit
    /\ workspace = {}

RLCheck == \E k \in Keys : CheckRateLimit(k) /\ UNCHANGED <<histVars, normVars, storeVars, fileVars, sideVars, fetchVars, graphVars, classVars, normLog>>
RLRecord == \E k \in Keys : RecordRequest(k, MaxRecordedRL) /\ UNCHANGED <<histVars, normVars, storeVars, fileVars, sideVars, fetchVars, graphVars, classVars, normLog>>
RLInitKey == \E k \in Keys, p \in InitParams :
                InitRateLimit(k, p[1], p[2], p[3]) /\ UNCHANGED <<histVars, normVars, storeVars, fileVars, sideVars, fetchVars, graphVars, classVars, normLog>>
RLTick == Tick /\ UNCHANGED <<histVars, normVars, storeVars, fileVars, sideVars, fetchVars, graphVars, classVars, normLog>>

RLNext == RLCheck \/ RLRecord \/ RLInitKey \/ RLTick

SpecRL == RLInit /\ [][RLNext]_vars

(***************************************************************************)
(* One key under Init(60, 20, 10): the caller's sequence of Check and      *)
(* Record calls is counted per window.                                     *)
(***************************************************************************)

\* The Check about to run finds the key's window elapsed.
WillReset(k) ==
    /\ SelectRow(rate_limits, k) # 0
    /\ WindowExpired(rate_limits[SelectRow(rate_limits, k)], now)

WinInit ==
    /\ InitRateLimit(WsKey, DefaultWindow, DefaultMax, DefaultSafety)
    /\ UNCHANGED <<histVars, normVars, storeVars, fileVars, sideVars, fetchVars, graphVars, classVars, normLog>>

WinCheck ==
    /\ nChecks < MaxChecks
    /\ CheckRateLimit(WsKey)
    /\ nChecks' = IF WillReset(WsKey) THEN 1 ELSE nChecks + 1
    /\ pending' = ret'.allowed
    /\ proto' = IF WillReset(WsKey) THEN TRUE ELSE (proto /\ ~pending)
    /\ UNCHANGED <<normVars, storeVars, fileVars, sideVars, fetchVars, graphVars, classVars, normLog>>

WinRecord ==
    /\ RecordRequest(WsKey, MaxRecorded)
    /\ proto' = (proto /\ pending)
    /\ pending' = FALSE
    /\ UNCHANGED <<nChecks, normVars, storeVars, fileVars, sideVars, fetchVars, graphVars, classVars, normLog>>

WinTick == Tick /\ UNCHANGED <<histVars, normVars, storeVars, fileVars, sideVars, fetchVars, graphVars, classVars, normLog>>

WinNext == WinInit \/ WinCheck \/ WinRecord \/ WinTick

SpecWindow == RLInit /\ [][WinNext]_vars

\* The state of WsKey, when it has one.
HasState(k) == SelectRow(rate_limits, k) # 0
StateOf(k) == rate_limits[SelectRow(rate_limits, k)]

\* A Check that finds the window elapsed allows the request and leaves
\* requests_made = 0.
ExpiredCheckResets ==
    (WinCheck /\ WillReset(WsKey))
        => (ret'.allowed /\ StateOf(WsKey)'.requests_made = 0)

\* C1 as stated: counting Check calls alone, the first 10 in a window are
\* allowed and the 11th is rejected; after the window elapsed the next Check
\* is allowed and requests_made is 0.
C1_CheckCountState ==
    (ret.op = "Check" /\ ret.key = WsKey) =>
        /\ (nChecks <= DefaultSafety => ret.allowed)
        /\ (nChecks = DefaultSafety + 1 => ~ret.allowed)

C1_Original == []C1_CheckCountState /\ [][ExpiredCheckResets]_vars

\* C1 (amended): Check does not count requests; when every allowed Check was
\* followed by one RecordRequest, the first 10 Checks of a window are allowed
\* and the 11th is rejected, and a Check that finds the window elapsed is
\* allowed and resets requests_made to 0.
C1_ProtocolState ==
    (proto /\ ret.op = "Check" /\ ret.key = WsKey) =>
        /\ (nChecks <= DefaultSafety => ret.allowed)
        /\ (nChecks = DefaultSafety + 1 => ~ret.allowed)

C1_WindowLimit == []C1_ProtocolState /\ [][ExpiredCheckResets]_vars

\* The 11th Check of a window is rejected after ten recorded requests, the
\* window still open.
C1_Witness ==
    /\ proto
    /\ ret.op = "Check"
    /\ ~ret.allowed
    /\ nChecks = DefaultSafety + 1
    /\ HasState(WsKey)
    /\ StateOf(WsKey).requests_made = DefaultSafety
    /\ now <= StateOf(WsKey).window_start + DefaultWindow

(***************************************************************************)
(* Properties of the rate limiter over several keys (SpecRL)               *)
(***************************************************************************)

\* The key has state and its window is still open at the clock's time.
InOpenWindow(k) ==
    /\ HasState(k)
    /\ now <= StateOf(k).window_start + StateOf(k).window_duration_seconds

C2_Step ==
    \A k \in Keys :
        (CheckRateLimit(k) /\ InOpenWindow(k)) =>
            /\ ret'.allowed <=> (StateOf(k).requests_made < StateOf(k).safety_limit)
            /\ rate_limits' = rate_limits

\* C2: for a key with state whose window has not expired, Check returns true
\* iff requests_made < safety_limit (and changes nothing), so a key at or over
\* its safety limit is rejected by every Check until the window expires.
C2_CheckIffBelowSafety == [][C2_Step]_vars

\* A Check was rejected: the key is at its safety limit inside its window.
C2_Witness ==
    /\ ret.op = "Check"
    /\ ~ret.allowed
    /\ InOpenWindow(ret.key)
    /\ StateOf(ret.key).requests_made >= StateOf(ret.key).safety_limit

\* The key has state and the clock is past the end of its window.
PastWindow(k) ==
    /\ HasState(k)
    /\ now > StateOf(k).window_start + StateOf(k).window_duration_seconds

C22_Step ==
    \A k \in Keys :
        /\ (CheckRateLimit(k) /\ PastWindow(k)) =>
                /\ ret'.allowed
                /\ StateOf(k)'.requests_made = 0
                /\ StateOf(k)'.window_start = now
        /\ (HasState(k) /\ ~PastWindow(k)) =>
                /\ StateOf(k)'.requests_made >= StateOf(k).requests_made
                /\ StateOf(k)'.window_start = StateOf(k).window_start

\* C22: requests_made is reset to 0 exactly when now > window_start +
\* window_duration: a Check made after expiry sets requests_made = 0 and
\* window_start = now and allows; while the window is open no call
\* lowers requests_made or moves window_start.
C22_ResetExactlyOnExpiry == [][C22_Step]_vars

\* A Check has reset the first row: its window now starts later than the
\* window of a row created after it.
C22_Witness ==
    /\ Len(rate_limits) = 2
    /\ rate_limits[1].window_start > rate_limits[2].window_start
    /\ ret.op = "Check" /\ ret.allowed
    /\ Matches(rate_limits[1], ret.key)
    /\ rate_limits[1].requests_made = 0
    /\ rate_limits[1].window_start = now

C3_Step ==
    \A k \in Keys, p \in InitParams :
        InitRateLimit(k, p[1], p[2], p[3]) =>
            IF HasState(k)
            THEN rate_limits' = rate_limits
            ELSE /\ Cardinality(KeyRows(rate_limits', k)) = 1
                 /\ StateOf(k)'.requests_made = 0
                 /\ StateOf(k)'.window_duration_seconds = p[1]
                 /\ StateOf(k)'.max_requests = p[2]
                 /\ StateOf(k)'.safety_limit = p[3]

\* C3: Init creates the state of an absent key with requests_made = 0 and is
\* a no-op on a key that has state, whatever the parameters, for keys with
\* and without a workspace.
C3_InitIdempotent == [][C3_Step]_vars

(***************************************************************************)
(* Normalizers: internal/normalize (SlackToNormalized, GitHub issue and    *)
(* comment) and the fetch command's own normalizeSlackMessage.             *)
(* A synthesized id is the tuple of the parts fmt.Sprintf joins with "_".  *)
(***************************************************************************)

\* The empty string, and a nil *string.
Empty == <<>>

\* Native Slack timestamps: two that parse and one that does not.
ValidTs == {"1700000001.000100", "1700000002.000200"}
BadTs == "not-a-timestamp"
NativeTs == ValidTs \cup {BadTs}
\* thread_ts is omitted ("") or names a message of the channel.
ThreadPointers == ValidTs \cup {""}

Teams == {"T1"}
Channels == {"C1"}

SlackNatives ==
    [kind : {"slack"}, team : Teams, channel : Channels,
     ts : NativeTs, thread_ts : ThreadPointers]

GitHubIssues ==
    [kind : {"issue"}, owner : {"o"}, repo : {"r"}, number : {1, 2}]

GitHubComments ==
    [kind : {"comment"}, owner : {"o"}, repo : {"r"}, number : {1, 2},
     comment_id : {7}]

GitHubPRs ==
    [kind : {"pr"}, owner : {"o"}, repo : {"r"}, number : {3}]

GitHubPRComments ==
    [kind : {"pr_comment"}, owner : {"o"}, repo : {"r"}, number : {3},
     comment_id : {7}]

GitHubPRReviews ==
    [kind : {"pr_review"}, owner : {"o"}, repo : {"r"}, number : {3},
     review_id : {9}]

\* parseSlackTimestamp: nil error iff the string is a Slack timestamp.
ParseSlackTimestamp(ts) == ts \in ValidTs

\* Mutant: every chat message flagged as a thread root.
IsThreadRootNormalize_Always(ts, thread_ts) == TRUE

\* isThreadRoot := msg.ThreadTS == "" || msg.ThreadTS == msg.Timestamp
IsThreadRootNormalize(ts, thread_ts) == thread_ts = "" \/ thread_ts = ts

\* Mutant: the parent id synthesized from the reply's own timestamp.
ParentIdNormalize_OwnTs(team, channel, ts, thread_ts) ==
    <<"msg_slack", team, channel, ts>>

\* parentID = fmt.Sprintf("msg_slack_%s_%s_%s", teamID, channel.ID, msg.ThreadTS)
ParentIdNormalize(team, channel, ts, thread_ts) ==
    <<"msg_slack", team, channel, thread_ts>>

\* normalize.SlackToNormalized
SlackToNormalized(n) ==
    LET root == IsThreadRootNormalize(n.ts, n.thread_ts) IN
    [ok |-> ParseSlackTimestamp(n.ts),
     msg |-> [id |-> <<"msg_slack", n.team, n.channel, n.ts>>,
              source_type |-> "slack",
              thread_id |-> IF n.thread_ts # ""
                            THEN <<"thread_slack", n.team, n.channel, n.thread_ts>>
                            ELSE Empty,
              parent_id |-> IF n.thread_ts # "" /\ ~root
                            THEN ParentIdNormalize(n.team, n.channel, n.ts, n.thread_ts)
                            ELSE Empty,
              is_thread_root |-> root]]

\* commands.normalizeSlackMessage (takes no team id into the message id)
NormalizeSlackMessage(n) ==
    LET msgID == <<"msg_slack", n.channel, n.ts>>
        tid == <<"msg_slack", n.channel, n.thread_ts>> IN
    [ok |-> ParseSlackTimestamp(n.ts),
     msg |-> [id |-> msgID,
              source_type |-> "slack",
              thread_id |-> IF n.thread_ts = "" THEN Empty
                            ELSE IF n.thread_ts = n.ts THEN msgID ELSE tid,
              parent_id |-> IF n.thread_ts # "" /\ n.thread_ts # n.ts
                            THEN tid ELSE Empty,
              is_thread_root |-> (n.thread_ts # "" /\ n.thread_ts = n.ts)]]

\* normalize.GitHubIssueToNormalized
GitHubIssueToNormalized(n) ==
    [ok |-> TRUE,
     msg |-> [id |-> <<"msg_github", n.owner, n.repo, "issue", n.number>>,
              source_type |-> "github",
              thread_id |-> <<"thread_github", n.owner, n.repo, "issue", n.number>>,
              parent_id |-> Empty,
              is_thread_root |-> TRUE]]

\* normalize.GitHubIssueCommentToNormalized
GitHubIssueCommentToNormalized(n) ==
    [ok |-> TRUE,
     msg |-> [id |-> <<"msg_github", n.owner, n.repo, "issue", n.number,
                       "comment", n.comment_id>>,
              source_type |-> "github",
              thread_id |-> <<"thread_github", n.owner, n.repo, "issue", n.number>>,
              parent_id |-> <<"msg_github", n.owner, n.repo, "issue", n.number>>,
              is_thread_root |-> FALSE]]

\* normalize.GitHubPRToNormalized
GitHubPRToNormalized(n) ==
    [ok |-> TRUE,
     msg |-> [id |-> <<"msg_github", n.owner, n.repo, "pr", n.number>>,
              source_type |-> "github",
              thread_id |-> <<"thread_github", n.owner, n.repo, "pr", n.number>>,
              parent_id |-> Empty,
              is_thread_root |-> TRUE]]

\* normalize.GitHubPRCommentToNormalized
GitHubPRCommentToNormalized(n) ==
    [ok |-> TRUE,
     msg |-> [id |-> <<"msg_github", n.owner, n.repo, "pr", n.number,
                       "comment", n.comment_id>>,
              source_type |-> "github",
              thread_id |-> <<"thread_github", n.owner, n.repo, "pr", n.number>>,
              parent_id |-> <<"msg_github", n.owner, n.repo, "pr", n.number>>,
              is_thread_root |-> FALSE]]

\* Mutant: a review filed under the pull request's comment instead of the
\* pull request.
GitHubPRReviewToNormalized_Nested(n) ==
    [ok |-> TRUE,
     msg |-> [id |-> <<"msg_github", n.owner, n.repo, "pr", n.number,
                       "review", n.review_id>>,
              source_type |-> "github",
              thread_id |-> <<"thread_github", n.owner, n.repo, "pr", n.number>>,
              parent_id |-> <<"msg_github", n.owner, n.repo, "pr", n.number,
                              "comment", 7>>,
              is_thread_root |-> FALSE]]

\* normalize.GitHubPRReviewToNormalized
GitHubPRReviewToNormalized(n) ==
    [ok |-> TRUE,
     msg |-> [id |-> <<"msg_github", n.owner, n.repo, "pr", n.number,
                       "review", n.review_id>>,
              source_type |-> "github",
              thread_id |-> <<"thread_github", n.owner, n.repo, "pr", n.number>>,
              parent_id |-> <<"msg_github", n.owner, n.repo, "pr", n.number>>,
              is_thread_root |-> FALSE]]

\* The pipelines: the normalize package (Slack and GitHub records share one
\* store) and the fetch command's SQLite path.
Pipelines == {"normalize", "fetch"}

NativesOf(via) ==
    IF via = "normalize"
    THEN SlackNatives \cup GitHubIssues \cup GitHubComments
            \cup GitHubPRs \cup GitHubPRComments \cup GitHubPRReviews
    ELSE SlackNatives

Normalize(via, n) ==
    IF n.kind = "issue" THEN GitHubIssueToNormalized(n)
    ELSE IF n.kind = "comment" THEN GitHubIssueCommentToNormalized(n)
    ELSE IF n.kind = "pr" THEN GitHubPRToNormalized(n)
    ELSE IF n.kind = "pr_comment" THEN GitHubPRCommentToNormalized(n)
    ELSE IF n.kind = "pr_review" THEN GitHubPRReviewToNormalized(n)
    ELSE IF via = "normalize" THEN SlackToNormalized(n)
    ELSE NormalizeSlackMessage(n)

NormInit ==
    /\ RLInit

\* One native record goes through its pipeline's normalizer.
NormalizeOk ==
    \E via \in Pipelines : \E n \in NativesOf(via) :
        /\ Cardinality(canon) < MaxBatch
        /\ Normalize(via, n).ok
        /\ canon' = canon \cup {[via |-> via, native |-> n, msg |-> Normalize(via, n).msg]}
        /\ normErr' = FALSE
        /\ UNCHANGED <<rlVars, histVars, storeVars, fileVars, sideVars, fetchVars, graphVars, classVars, normLog>>

\* The record's timestamp does not parse: an error, and no message.
NormalizeFails ==
    \E via \in Pipelines : \E n \in NativesOf(via) :
        /\ ~Normalize(via, n).ok
        /\ ~normErr
        /\ normErr' = TRUE
        /\ UNCHANGED <<canon, rlVars, histVars, storeVars, fileVars, sideVars, fetchVars, graphVars, classVars, normLog>>

NormNext == NormalizeOk \/ NormalizeFails

SpecNorm == NormInit /\ [][NormNext]_vars

\* The canonical messages one pipeline produced.
Produced(via) == {e.msg : e \in {x \in canon : x.via = via}}

(***************************************************************************)
(* Thread structure of the canonical messages (SpecNorm)                   *)
(***************************************************************************)

\* The thread roots a pipeline produced for thread id t.
RootsOf(via, t) == {r \in Produced(via) : r.thread_id = t /\ r.is_thread_root}

\* C8 as stated: each thread_id has exactly one message with
\* is_thread_root = true, and that message's id equals the thread_id.
C8_Original ==
    \A via \in Pipelines : \A m \in Produced(via) :
        m.thread_id # Empty =>
            /\ Cardinality(RootsOf(via, m.thread_id)) = 1
            /\ \A r \in RootsOf(via, m.thread_id) : r.id = m.thread_id

\* The id and the thread id name the same native object: the same parts
\* after the prefix, the prefix being the id's own or its thread_ twin.
ThreadPrefix(p) == IF p = "msg_slack" THEN "thread_slack" ELSE "thread_github"

SameNativeObject(r) ==
    /\ Tail(r.id) = Tail(r.thread_id)
    /\ Head(r.thread_id) \in {Head(r.id), ThreadPrefix(Head(r.id))}

\* C8 (amended): each non-empty thread_id has at most one thread root (none
\* when the root's native record was not normalized), and the root's id and
\* thread_id are synthesized from the same native identifier: equal in the
\* fetch command's normalizer, msg_ against thread_ prefixed in the normalize
\* package.
C8_RootPerThread ==
    \A via \in Pipelines : \A m \in Produced(via) :
        m.thread_id # Empty =>
            /\ Cardinality({r.id : r \in RootsOf(via, m.thread_id)}) <= 1
            /\ \A r \in RootsOf(via, m.thread_id) :
                /\ SameNativeObject(r)
                /\ via = "fetch" => r.id = r.thread_id
                /\ via = "normalize" => Head(r.thread_id) = ThreadPrefix(Head(r.id))

\* A root and a reply of one thread were both produced, by each pipeline.
C8_Witness ==
    \A via \in Pipelines :
        \E r \in Produced(via) : \E m \in Produced(via) :
            /\ r.is_thread_root
            /\ ~m.is_thread_root
            /\ m.thread_id # Empty
            /\ m.thread_id = r.thread_id

\* C9: a chat-style message is normalized as a thread root iff it has no
\* thread pointer or its thread pointer equals its own timestamp.
C9_RootIffNoPointerOrSelf ==
    \A e \in canon :
        e.native.kind = "slack" =>
            (e.msg.is_thread_root <=>
                (e.native.thread_ts = "" \/ e.native.thread_ts = e.native.ts))

\* A chat-style reply, and the native record of its root (as Slack returns
\* it, with thread_ts = ts, and as a search hit without thread pointer).
IsReply(n) == n.kind = "slack" /\ n.thread_ts # "" /\ n.thread_ts # n.ts
RootRecord(n) == [n EXCEPT !.ts = n.thread_ts]
BareRootRecord(n) == [n EXCEPT !.ts = n.thread_ts, !.thread_ts = ""]
RootRecords(n) == {RootRecord(n), BareRootRecord(n)}

\* C10 as stated: a reply's parent_id and thread_id both equal the id that
\* normalizing the root record produces.
C10_Original ==
    \A e \in canon :
        IsReply(e.native) =>
            \A root \in RootRecords(e.native) :
                /\ e.msg.parent_id = Normalize(e.via, root).msg.id
                /\ e.msg.thread_id = Normalize(e.via, root).msg.id

\* C10 (amended): a reply's parent_id equals the id normalizing the root
\* record produces; its thread_id equals that id in the fetch command's
\* normalizer, and in SlackToNormalized it is the thread_slack_ id of the
\* same team, channel and root timestamp, which is the thread_id the root
\* record carrying its thread pointer gets.
C10_ReplyPointsAtRoot ==
    \A e \in canon :
        IsReply(e.native) =>
            /\ \A root \in RootRecords(e.native) :
                    e.msg.parent_id = Normalize(e.via, root).msg.id
            /\ e.via = "fetch" =>
                    e.msg.thread_id = Normalize(e.via, RootRecord(e.native)).msg.id
            /\ e.via = "normalize" =>
                    /\ e.msg.thread_id = Normalize(e.via, RootRecord(e.native)).msg.thread_id
                    /\ e.msg.thread_id =
                         <<"thread_slack">> \o Tail(Normalize(e.via, RootRecord(e.native)).msg.id)

\* Both normalizers produced a reply.
C10_Witness ==
    \A via \in Pipelines :
        \E e \in canon : e.via = via /\ IsReply(e.native) /\ e.msg.parent_id # Empty

\* The issue/PR-style source: bodies, and the comments and reviews under them.
GitHubBodyKinds == {"issue", "pr"}
GitHubChildKinds == {"comment", "pr_comment", "pr_review"}

\* The issue or pull request a comment or review was fetched under.
BodyOf(n) ==
    [kind |-> IF n.kind = "comment" THEN "issue" ELSE "pr",
     owner |-> n.owner, repo |-> n.repo, number |-> n.number]

\* C11: an issue or PR body is normalized as a thread root without parent;
\* every comment and review is a non-root whose parent_id is the id of that
\* body's message, in the body's thread; so no produced message has a
\* parent that itself has a parent (thread depth at most 1).
C11_GitHubDepthOne ==
    /\ \A e \in canon :
        /\ e.native.kind \in GitHubBodyKinds =>
            (e.msg.is_thread_root /\ e.msg.parent_id = Empty)
        /\ e.native.kind \in GitHubChildKinds =>
            LET body == Normalize(e.via, BodyOf(e.native)).msg IN
            /\ ~e.msg.is_thread_root
            /\ e.msg.parent_id = body.id
            /\ e.msg.thread_id = body.thread_id
            /\ body.is_thread_root
    /\ \A c \in canon : \A p \in canon :
        (c.msg.source_type = "github" /\ c.msg.parent_id = p.msg.id)
            => p.msg.parent_id = Empty

\* An issue with a comment and a pull request with a review were normalized.
C11_Witness ==
    /\ \E e \in canon : e.native.kind = "pr_review" /\
            \E b \in canon : b.native = BodyOf(e.native)
    /\ \E e \in canon : e.native.kind = "comment" /\
            \E b \in canon : b.native = BodyOf(e.native)


(***************************************************************************)
(* The stores: normalize.SaveNormalizedMessage (by_id, by_date, by_source  *)
(* files) and db.SaveMessage (SQLite messages table).                      *)
(***************************************************************************)

\* Text of a native message; an edit upstream changes it.
StoreContents == {"v1", "v2"}

\* msg.Timestamp.Format("2006-01-02")
DateOf(ts) == "2023-11-14"

\* Native records saved in the store runs: one message seen without thread
\* pointer and as a thread root, and one reply to it.
StoreNatives ==
    {n \in SlackNatives :
        \/ n.ts = "1700000001.000100" /\ n.thread_ts \in {"", "1700000001.000100"}
        \/ n.ts = "1700000002.000200" /\ n.thread_ts = "1700000001.000100"}

\* The canonical message with its content-derived part and its date.
WithContent(m, c, ts) ==
    [id |-> m.id, source_type |-> m.source_type, thread_id |-> m.thread_id,
     parent_id |-> m.parent_id, is_thread_root |-> m.is_thread_root,
     content |-> c, date |-> DateOf(ts)]

FileMessages ==
    {WithContent(SlackToNormalized(n).msg, c, n.ts) : n \in StoreNatives, c \in StoreContents}

DbMessages ==
    {WithContent(NormalizeSlackMessage(n).msg, c, n.ts) : n \in StoreNatives, c \in StoreContents}

\* os.WriteFile(<id>.json.tmp) then os.Rename: the file named by the id
\* holds the new record.
WriteById(files, m) ==
    [i \in DOMAIN files \cup {m.id} |-> IF i = m.id THEN m ELSE files[i]]

\* os.OpenFile(path, O_APPEND|O_CREATE|O_WRONLY) then f.Write(line)
AppendLine(files, name, m) ==
    [k \in DOMAIN files \cup {name} |->
        IF k # name THEN files[k]
        ELSE IF name \in DOMAIN files THEN Append(files[name], m) ELSE <<m>>]

\* Stages of SaveNormalizedMessage at which an I/O error may return early.
SaveStages == {"none", "by_id", "by_date", "by_source"}

SaveNormalizedMessage(m, failAt) ==
    /\ m.date \in DOMAIN by_date => Len(by_date[m.date]) < MaxLines
    /\ m.source_type \in DOMAIN by_source => Len(by_source[m.source_type]) < MaxLines
    /\ by_id' = IF failAt = "by_id" THEN by_id ELSE WriteById(by_id, m)
    /\ by_date' = IF failAt \in {"by_id", "by_date"} THEN by_date
                  ELSE AppendLine(by_date, m.date, m)
    /\ by_source' = IF failAt \in {"by_id", "by_date", "by_source"} THEN by_source
                    ELSE AppendLine(by_source, m.source_type, m)
    /\ saveErr' = (failAt # "none")
    /\ UNCHANGED messages

\* INSERT INTO messages ... ON CONFLICT(id) DO UPDATE SET content = ...,
\* mentions, urls, code_blocks, attachments, normalized_at
UpsertMessage(rows, m) ==
    IF \E r \in rows : r.id = m.id
    THEN {IF r.id = m.id THEN [r EXCEPT !.content = m.content] ELSE r : r \in rows}
    ELSE rows \cup {m}

SaveMessage(m, fails) ==
    /\ messages' = IF fails THEN messages ELSE UpsertMessage(messages, m)
    /\ saveErr' = fails
    /\ UNCHANGED <<by_id, by_date, by_source>>

StoreSaveFile ==
    \E m \in FileMessages, failAt \in SaveStages :
        /\ SaveNormalizedMessage(m, failAt)
        /\ UNCHANGED <<rlVars, histVars, normVars, fileVars, sideVars, fetchVars, graphVars, classVars, normLog>>

StoreSaveDb ==
    \E m \in DbMessages, fails \in BOOLEAN :
        /\ SaveMessage(m, fails)
        /\ UNCHANGED <<rlVars, histVars, normVars, fileVars, sideVars, fetchVars, graphVars, classVars, normLog>>

StoreNext == StoreSaveFile \/ StoreSaveDb

SpecStore == RLInit /\ [][StoreNext]_vars

NoDuplicateIds(lines) ==
    \A i \in DOMAIN lines : \A j \in DOMAIN lines :
        lines[i].id = lines[j].id => i = j

\* C6: after any sequence of saves every index of the store (the by_id
\* files, the by_date and by_source files, the messages table) holds at most
\* one record per message id.
C6_OneRecordPerId ==
    /\ \A i \in DOMAIN by_id : by_id[i].id = i
    /\ \A d \in DOMAIN by_date : NoDuplicateIds(by_date[d])
    /\ \A src \in DOMAIN by_source : NoDuplicateIds(by_source[src])
    /\ \A r1 \in messages : \A r2 \in messages : r1.id = r2.id => r1 = r2

(***************************************************************************)
(* Write-to-temp-then-rename: saveMessageByID, cache.SaveMessages and      *)
(* saveGraphFile all write filePath + ".tmp" and rename it over filePath.  *)
(* Two pipeline invocations write the same file while a reader reads it.   *)
(***************************************************************************)

InodeIds == 1..MaxInodes

\* A writer's position: not writing, about to make write call i, or about to
\* rename.
WIdle == 0
WRenaming == Chunks + 1

NoChunk == [w |-> "none", i |-> 0]
EmptyData == [i \in 1..Chunks |-> NoChunk]

\* The data writer w persists, cut into the write calls it takes.
DataOf(w) == [i \in 1..Chunks |-> [w |-> w, i |-> i]]

Referenced == {dir[p] : p \in DOMAIN dir} \cup {wfd[w] : w \in Writers}
FreeInodes == InodeIds \ Referenced

\* os.WriteFile(tempPath, ...): open with O_WRONLY|O_CREATE|O_TRUNC. An
\* existing .tmp is truncated in place, a missing one is created.
WOpen(w) ==
    /\ wpc[w] = WIdle
    /\ IF dir["tmp"] # NoInode
       THEN /\ inodes' = [inodes EXCEPT ![dir["tmp"]] = EmptyData]
            /\ wfd' = [wfd EXCEPT ![w] = dir["tmp"]]
            /\ UNCHANGED dir
       ELSE /\ FreeInodes # {}
            /\ LET n == CHOOSE x \in FreeInodes : \A y \in FreeInodes : x <= y IN
               /\ inodes' = [inodes EXCEPT ![n] = EmptyData]
               /\ wfd' = [wfd EXCEPT ![w] = n]
               /\ dir' = [dir EXCEPT !["tmp"] = n]
    /\ wpc' = [wpc EXCEPT ![w] = 1]
    /\ UNCHANGED observed

\* One write call: the next chunk lands at the descriptor's own offset.
WWrite(w) ==
    /\ wpc[w] \in 1..Chunks
    /\ inodes' = [inodes EXCEPT ![wfd[w]][wpc[w]] = DataOf(w)[wpc[w]]]
    /\ wpc' = [wpc EXCEPT ![w] = wpc[w] + 1]
    /\ UNCHANGED <<dir, wfd, observed>>

\* f.Close(), then os.Rename(tempPath, filePath); on error os.Remove(tempPath).
WRename(w) ==
    /\ wpc[w] = WRenaming
    /\ dir' = IF dir["tmp"] # NoInode
              THEN [dir EXCEPT !["file"] = dir["tmp"], !["tmp"] = NoInode]
              ELSE dir
    /\ wpc' = [wpc EXCEPT ![w] = WIdle]
    /\ wfd' = [wfd EXCEPT ![w] = NoInode]
    /\ UNCHANGED <<inodes, observed>>

IsComplete(data) == \E w \in Writers : data = DataOf(w)

\* A reader (LoadMessageByID, cache.LoadMessages, loadGraphFile) reads the
\* persisted file.
ReadFile ==
    /\ observed' = IF dir["file"] = NoInode THEN "absent"
                   ELSE IF IsComplete(inodes[dir["file"]]) THEN "complete"
                   ELSE "partial"
    /\ observed' # observed
    /\ UNCHANGED <<dir, inodes, wpc, wfd>>

FileInit == RLInit

FileOpen == \E w \in Writers : WOpen(w) /\ UNCHANGED <<rlVars, histVars, normVars, storeVars, fetchVars, sideVars, graphVars, classVars, normLog>>
FileWrite == \E w \in Writers : WWrite(w) /\ UNCHANGED <<rlVars, histVars, normVars, storeVars, fetchVars, sideVars, graphVars, classVars, normLog>>
FileRename == \E w \in Writers : WRename(w) /\ UNCHANGED <<rlVars, histVars, normVars, storeVars, fetchVars, sideVars, graphVars, classVars, normLog>>
FileRead == ReadFile /\ UNCHANGED <<rlVars, histVars, normVars, storeVars, fetchVars, sideVars, graphVars, classVars, normLog>>

FileNext == FileOpen \/ FileWrite \/ FileRename \/ FileRead

SpecFile == FileInit /\ [][FileNext]_vars

\* C7: a reader running concurrently with any number of writers of the same
\* file only ever observes a complete version of it.
C7_ReadersSeeCompleteFiles == observed # "partial"

(***************************************************************************)
(* runFetchSlack (cmd/mine/commands/fetch.go): search, then for each match *)
(* fetch its thread or store it, under the persisted rate limiter.         *)
(***************************************************************************)

SearchKey == WsKey
RepliesKey == <<"slack", "ws_slack_T1", "conversations.replies">>

\* What an earlier run of the command may have left in requests_made.
PriorRequests == {DefaultSafety - 1, DefaultSafety}

RateLimitRow(k, made) ==
    [source_type |-> k[1], workspace_id |-> k[2], endpoint |-> k[3],
     requests_made |-> made, window_start |-> 0,
     window_duration_seconds |-> DefaultWindow,
     max_requests |-> DefaultMax, safety_limit |-> DefaultSafety]

\* Another channel of the workspace, in which a thread was started at the
\* timestamp of a thread of C1: a ts is unique within its channel only.
OtherChannel == "C2"

\* Messages a search may match: those of channel C1, and a thread root of
\* the other channel.
FetchNatives ==
    SlackNatives \cup
    {[kind |-> "slack", team |-> "T1", channel |-> OtherChannel,
      ts |-> t, thread_ts |-> t] : t \in {"1700000001.000100"}}

\* conversations.replies returns the messages of a thread oldest first, each
\* once; a malformed timestamp is given the last place.
TsOrder == <<"1700000001.000100", "1700000002.000200", BadTs>>

TsRank(ts) == CHOOSE i \in 1..Len(TsOrder) : TsOrder[i] = ts

OldestFirst(S) ==
    CHOOSE f \in [1..Cardinality(S) -> S] :
        \A i, j \in 1..Cardinality(S) : i < j => TsRank(f[i].ts) < TsRank(f[j].ts)

\* The messages of thread t of channel c among W.
ThreadOf(W, c, t) == {n \in W : n.channel = c /\ n.thread_ts = t}

\* What a workspace may hold: one message per channel and ts; a reply is
\* later than the root of its thread, which exists and carries its own ts as
\* thread_ts; a thread has no more than MaxThread messages.
Workspaces ==
    {W \in SUBSET FetchNatives :
        /\ \A n, m \in W : (n.channel = m.channel /\ n.ts = m.ts) => n = m
        /\ \A n \in W :
            n.thread_ts \notin {"", n.ts} =>
                /\ TsRank(n.thread_ts) < TsRank(n.ts)
                /\ [n EXCEPT !.ts = n.thread_ts] \in W
        /\ \A n \in W :
            n.thread_ts # "" =>
                Cardinality(ThreadOf(W, n.channel, n.thread_ts)) <= MaxThread}

\* One step of the run in the log: an API call and whether it succeeded, a
\* CheckRateLimit and what it returned, a RecordRequest.
Event(ev, endpoint, ok) == [ev |-> ev, endpoint |-> endpoint, ok |-> ok]

\* Mutant: the request is recorded whether or not the call succeeded.
Called_AlwaysRecord(k, ok) ==
    <<Event("call", k[3], ok), Event("record", k[3], TRUE)>>

\* The API call on a limited endpoint and what the run does next: on an
\* error it returns or continues, otherwise it calls RecordRequest.
Called(k, ok) ==
    IF ok THEN <<Event("call", k[3], ok), Event("record", k[3], TRUE)>>
    ELSE <<Event("call", k[3], ok)>>

\* The database as earlier runs of the command left it: never used, or both
\* endpoints' windows open with some requests recorded.
FetchStartState ==
    /\ pc = "start" /\ nMatches = 0 /\ idx = 0
    /\ threadsProcessed = {} /\ messageCount = 0 /\ threadCount = 0
    /\ outcome = "running" /\ apiCalls = 0 /\ rejectedAt = "no"
    /\ nSaved = 0 /\ nFailed = 0
    /\ raw_messages = {} /\ users = {} /\ channels = {}
    /\ NewReplyGraph
    /\ NothingClassified
    /\ SideInit
    /\ now = 0 /\ ret = [op |-> "none", key |-> WsKey, allowed |-> TRUE]
    /\ nChecks = 0 /\ pending = FALSE /\ proto = TRUE
    /\ canon = {} /\ normErr = FALSE
    /\ by_id = <<>> /\ by_date = <<>> /\ by_source = <<>>
    /\ messages = {} /\ saveErr = FALSE
    /\ dir = [p \in {"file", "tmp"} |-> 0]
    /\ inodes = [n \in 1..MaxInodes |-> [i \in 1..Chunks |-> [w |-> "none", i |-> 0]]]
    /\ wpc = [w \in {"w1", "w2"} |-> 0]
    /\ wfd = [w \in {"w1", "w2"} |-> 0]
    /\ observed = "none"
    /\ cur = [kind |-> "slack", team |-> "T1", channel |-> "C1", ts |-> "", thread_ts |-> ""]
    /\ rate_limits \in {<<>>} \cup
            {<<RateLimitRow(SearchKey, a), RateLimitRow(RepliesKey, b)>> :
                a \in PriorRequests, b \in PriorRequests}

\* A fetch run starts against some workspace.
FetchInit == FetchStartState /\ workspace \in Workspaces

NoMatch == [kind |-> "slack", team |-> "T1", channel |-> "C1", ts |-> "", thread_ts |-> ""]

\* Errors the database may return inside storeSlackMessage.
Faults == {"none", "raw", "save"}

\* Mutant: the message counted although storing it failed.
CountStored_Always(count, err) == count + 1

\* if err := storeSlackMessage(...); err != nil { continue }; messageCount++
CountStored(count, err) == IF err THEN count ELSE count + 1

\* storeSlackMessage over the tables it writes: users, channels,
\* raw_messages, then normalize and SaveMessage; the first error returns.
StoreSlackMessage(db, n, fault) ==
    LET dims == [db EXCEPT !.users = @ \cup {<<"user_slack", "U1">>},
                           !.channels = @ \cup {<<"chan_slack", n.channel>>}]
        withRaw == [dims EXCEPT !.raw = @ \cup {<<"msg_slack", n.channel, n.ts>>}]
        norm == NormalizeSlackMessage(n) IN
    IF fault = "raw" THEN [dims EXCEPT !.err = TRUE]
    ELSE IF ~norm.ok THEN [withRaw EXCEPT !.err = TRUE]
    ELSE IF fault = "save" THEN [withRaw EXCEPT !.err = TRUE]
    ELSE [withRaw EXCEPT !.err = FALSE,
                         !.rows = UpsertMessage(@, WithContent(norm.msg, "v1", n.ts))]

\* The loop over threadMessages: each message stored and counted in turn; a
\* failed one is skipped.
RECURSIVE StoreThread(_, _, _, _)
StoreThread(acc, msgs, faults, i) ==
    IF i > Len(msgs) THEN acc
    ELSE LET r == StoreSlackMessage(acc.db, msgs[i], faults[i]) IN
         StoreThread([db |-> r,
                      count |-> CountStored(acc.count, r.err),
                      saved |-> IF r.err THEN acc.saved ELSE acc.saved + 1,
                      failed |-> IF r.err THEN acc.failed + 1 ELSE acc.failed],
                     msgs, faults, i + 1)

Db == [rows |-> messages, raw |-> raw_messages, users |-> users,
       channels |-> channels, err |-> FALSE]

SetDb(r) ==
    /\ messages' = r.rows
    /\ raw_messages' = r.raw
    /\ users' = r.users
    /\ channels' = r.channels

FetchUnchanged ==
    UNCHANGED <<histVars, normVars, by_id, by_date, by_source, saveErr, fileVars,
                cacheVars, raceVars, workspace, ctxVars, graphVars, classVars, normLog>>

\* slack.Authenticate fails (auth.test is called outside the rate limiter):
\* the command returns the error.
FetchAuthFails ==
    /\ pc = "start"
    /\ pc' = "done"
    /\ outcome' = "error"
    /\ events' = events \o <<Event("call", "auth.test", FALSE)>>
    /\ UNCHANGED <<rlVars, nMatches, idx, cur, threadsProcessed, messageCount,
                   threadCount, apiCalls, rejectedAt, nSaved, nFailed, messages,
                   dbVars, results>>
    /\ FetchUnchanged

\* slack.Authenticate succeeds; InitRateLimit, then CheckRateLimit on
\* search.messages; a rejection returns the error "rate limit exceeded".
FetchStart ==
    /\ pc = "start"
    /\ LET rows1 == InsertRateLimit(rate_limits, SearchKey, DefaultWindow,
                                    DefaultMax, DefaultSafety, now)
           out == CheckOutcome(rows1, SearchKey, now) IN
       /\ rate_limits' = out.rows
       /\ ret' = [op |-> "Check", key |-> SearchKey, allowed |-> out.allowed]
       /\ pc' = IF out.allowed THEN "search" ELSE "done"
       /\ outcome' = IF out.allowed THEN outcome ELSE "error"
       /\ rejectedAt' = IF out.allowed THEN rejectedAt ELSE "search"
       /\ events' = events \o <<Event("call", "auth.test", TRUE),
                                Event("check", SearchKey[3], out.allowed)>>
    /\ UNCHANGED <<now, nMatches, idx, cur, threadsProcessed, messageCount,
                   threadCount, apiCalls, nSaved, nFailed, messages, dbVars, results>>
    /\ FetchUnchanged

\* SearchMessages: an error ends the run; a result is recorded and looped over.
FetchSearch ==
    /\ pc = "search"
    /\ apiCalls' = apiCalls + 1
    /\ \E ok \in BOOLEAN, n \in 0..MaxMatches :
        /\ n <= Cardinality(workspace)
        /\ events' = events \o Called(SearchKey, ok)
        /\ IF ok
           THEN /\ rate_limits' = RecordRows(rate_limits, SearchKey)
                /\ ret' = [op |-> "Record", key |-> SearchKey, allowed |-> TRUE]
                /\ nMatches' = n
                /\ idx' = 1
                /\ pc' = "loop"
                /\ UNCHANGED outcome
           ELSE /\ pc' = "done"
                /\ outcome' = "error"
                /\ UNCHANGED <<rate_limits, ret, nMatches, idx>>
    /\ UNCHANGED <<now, cur, threadsProcessed, messageCount, threadCount,
                   rejectedAt, nSaved, nFailed, messages, dbVars, results>>
    /\ FetchUnchanged

\* Mutant: the loop skips the match and goes on after a rejection.
BreakOnRateLimit_Continue ==
    /\ pc' = "loop"
    /\ idx' = idx + 1
    /\ UNCHANGED outcome

\* if !canProceed { "Rate limit reached, stopping"; break }, after which the
\* command prints its totals and returns nil.
BreakOnRateLimit ==
    /\ pc' = "done"
    /\ outcome' = "ok"
    /\ UNCHANGED idx

\* All matches processed: the command prints its totals and returns nil.
FetchComplete ==
    /\ pc = "loop"
    /\ idx > nMatches
    /\ pc' = "done"
    /\ outcome' = "ok"
    /\ UNCHANGED <<rlVars, nMatches, idx, cur, threadsProcessed, messageCount,
                   threadCount, apiCalls, rejectedAt, nSaved, nFailed, messages,
                   dbVars, events, results>>
    /\ FetchUnchanged

\* A match in a thread not yet processed: CheckRateLimit on
\* conversations.replies decides between fetching the thread and stopping.
FetchLoopThread ==
    /\ pc = "loop"
    /\ idx <= nMatches
    /\ \E result \in workspace \ results :
        /\ result.thread_ts # ""
        /\ result.thread_ts \notin threadsProcessed
        /\ results' = results \cup {result}
        /\ LET out == CheckOutcome(rate_limits, RepliesKey, now) IN
           /\ rate_limits' = out.rows
           /\ ret' = [op |-> "Check", key |-> RepliesKey, allowed |-> out.allowed]
           /\ events' = events \o <<Event("check", RepliesKey[3], out.allowed)>>
           /\ IF out.allowed
              THEN /\ pc' = "thread"
                   /\ cur' = result
                   /\ UNCHANGED <<idx, outcome, rejectedAt>>
              ELSE /\ BreakOnRateLimit
                   /\ rejectedAt' = "thread"
                   /\ UNCHANGED cur
    /\ UNCHANGED <<now, nMatches, threadsProcessed, messageCount, threadCount,
                   apiCalls, nSaved, nFailed, messages, dbVars>>
    /\ FetchUnchanged

\* A match outside any thread is stored on its own; a match whose thread was
\* already processed is passed over.
FetchLoopSingle ==
    /\ pc = "loop"
    /\ idx <= nMatches
    /\ \E result \in workspace \ results, fault \in Faults :
        /\ results' = results \cup {result}
        /\ IF result.thread_ts = ""
           THEN LET r == StoreSlackMessage(Db, result, fault) IN
                /\ SetDb(r)
                /\ messageCount' = CountStored(messageCount, r.err)
                /\ nSaved' = IF r.err THEN nSaved ELSE nSaved + 1
                /\ nFailed' = IF r.err THEN nFailed + 1 ELSE nFailed
           ELSE /\ result.thread_ts \in threadsProcessed
                /\ fault = "none"
                /\ UNCHANGED <<messages, dbVars, messageCount, nSaved, nFailed>>
    /\ idx' = idx + 1
    /\ UNCHANGED <<rlVars, pc, nMatches, cur, threadsProcessed, threadCount,
                   outcome, apiCalls, rejectedAt, events>>
    /\ FetchUnchanged

\* What conversations.replies returns for thread t of channel c: the root
\* and the replies the workspace holds, oldest first.
ThreadReplies(c, t) == {OldestFirst(ThreadOf(workspace, c, t))}

\* GetThreadReplies fails: a warning, and the loop goes on to the next match.
FetchThreadFails ==
    /\ pc = "thread"
    /\ apiCalls' = apiCalls + 1
    /\ nFailed' = nFailed + 1
    /\ idx' = idx + 1
    /\ pc' = "loop"
    /\ cur' = NoMatch
    /\ events' = events \o Called(RepliesKey, FALSE)
    /\ UNCHANGED <<rlVars, nMatches, threadsProcessed, messageCount, threadCount,
                   outcome, rejectedAt, nSaved, messages, dbVars, results>>
    /\ FetchUnchanged

\* GetThreadReplies succeeds: the request is recorded and every message of
\* the thread is stored.
FetchThreadOk ==
    /\ pc = "thread"
    /\ apiCalls' = apiCalls + 1
    /\ rate_limits' = RecordRows(rate_limits, RepliesKey)
    /\ ret' = [op |-> "Record", key |-> RepliesKey, allowed |-> TRUE]
    /\ events' = events \o Called(RepliesKey, TRUE)
    /\ \E msgs \in ThreadReplies(cur.channel, cur.thread_ts) :
        \E faults \in [1..Len(msgs) -> Faults] :
            LET r == StoreThread([db |-> Db, count |-> messageCount,
                                  saved |-> nSaved, failed |-> nFailed],
                                 msgs, faults, 1) IN
            /\ SetDb(r.db)
            /\ messageCount' = r.count
            /\ nSaved' = r.saved
            /\ nFailed' = r.failed
    /\ threadsProcessed' = threadsProcessed \cup {cur.thread_ts}
    /\ threadCount' = threadCount + 1
    /\ idx' = idx + 1
    /\ pc' = "loop"
    /\ cur' = NoMatch
    /\ UNCHANGED <<now, nMatches, outcome, rejectedAt, results>>
    /\ FetchUnchanged

FetchTick ==
    /\ pc # "done"
    /\ Tick
    /\ UNCHANGED <<messages, fetchVars, events, results>>
    /\ FetchUnchanged

FetchNext ==
    \/ FetchAuthFails
    \/ FetchStart
    \/ FetchSearch
    \/ FetchComplete
    \/ FetchLoopThread
    \/ FetchLoopSingle
    \/ FetchThreadFails
    \/ FetchThreadOk
    \/ FetchTick

SpecFetch == FetchInit /\ [][FetchNext]_vars

C4_State ==
    /\ rejectedAt = "thread" => (pc = "done" /\ outcome = "ok")
    /\ rejectedAt = "search" =>
        (pc = "done" /\ outcome = "error" /\ apiCalls = 0 /\ messageCount = 0)

C4_Step ==
    rejectedAt' # "no" =>
        /\ apiCalls' = apiCalls
        /\ messages' = messages
        /\ raw_messages' = raw_messages
        /\ messageCount' = messageCount

ItemFailed == nFailed' > nFailed

C5_Step ==
    /\ ItemFailed =>
        /\ pc' = "loop"
        /\ idx' = idx + 1
        /\ outcome' = "running"
        /\ messageCount' - messageCount = nSaved' - nSaved
    /\ {m.id : m \in messages} \subseteq {m.id : m \in messages'}

\* C5: a failed thread fetch, normalization or save leaves the loop running
\* at the next match, no stored message is lost, and the count of stored
\* messages grows only by the messages that were saved.
C5_FailureIsolated == [](messageCount = nSaved) /\ [][C5_Step]_vars

\* A run that completed although items failed, with other messages stored.
C5_Witness ==
    /\ pc = "done"
    /\ outcome = "ok"
    /\ rejectedAt = "no"
    /\ nFailed > 0
    /\ messageCount > 0
    /\ idx = nMatches + 1

(***************************************************************************)
(* The reply graph (internal/graph/graph.go)                               *)
(***************************************************************************)

\* Messages a graph is built from: what the normalize package produces
\* (fetch.go builds the graph from these), or messages put together by hand
\* as the package's tests do, whose parent_id may name any id.
GraphIds == {<<"a">>, <<"b">>, <<"c">>}

HandBuilt ==
    {[id |-> i, source_type |-> "slack", thread_id |-> <<"t">>,
      parent_id |-> p, is_thread_root |-> (p = Empty)] :
        i \in GraphIds, p \in GraphIds \cup {Empty}}

\* Slack stamps a reply with the timestamp of its thread's root, an earlier
\* message of the channel.
PointsBack(n) ==
    n.kind = "slack" =>
        (n.thread_ts = "" \/ TsRank(n.thread_ts) <= TsRank(n.ts))

NormalizedMessages ==
    {Normalize("normalize", n).msg :
        n \in {x \in NativesOf("normalize") :
                    Normalize("normalize", x).ok /\ PointsBack(x)}}

FamilyOf(m) == IF m \in HandBuilt THEN "handbuilt" ELSE "normalized"

\* One graph is built from messages of one family.
GraphInputs ==
    IF added = <<>> THEN HandBuilt \cup NormalizedMessages
    ELSE {m \in HandBuilt \cup NormalizedMessages : FamilyOf(m) = FamilyOf(added[1])}

\* Go's goroutine stack: a recursion deeper than any acyclic graph of the
\* model needs ends the process with a stack overflow.
MaxStack == MaxAdds + 1

\* Mutant: no message has children.
GetChildren_None(messageID) == <<>>

\* GetChildren: g.Adjacency[messageID], nil for an absent key.
GetChildren(messageID) ==
    IF messageID \in DOMAIN Adjacency THEN Adjacency[messageID] ELSE <<>>

\* AddMessage
AddMessage(msg) ==
    /\ Nodes' = [i \in DOMAIN Nodes \cup {msg.id} |->
                    IF i = msg.id
                    THEN [message_id |-> msg.id, thread_id |-> msg.thread_id,
                          parent_id |-> msg.parent_id,
                          is_thread_root |-> msg.is_thread_root]
                    ELSE Nodes[i]]
    /\ ThreadRoots' = IF msg.is_thread_root
                      THEN Append(ThreadRoots, msg.id) ELSE ThreadRoots
    /\ Adjacency' = IF msg.parent_id # Empty
                    THEN [p \in DOMAIN Adjacency \cup {msg.parent_id} |->
                            IF p = msg.parent_id
                            THEN Append(GetChildren(p), msg.id)
                            ELSE Adjacency[p]]
                    ELSE Adjacency
    /\ added' = Append(added, msg)

\* collectThreadMessages: each child that is a node is appended and then
\* descended into; acc.ok turns FALSE when the stack is exhausted.
RECURSIVE CollectChildren(_, _, _, _)
CollectChildren(children, i, acc, stack) ==
    IF ~acc.ok \/ i > Len(children) THEN acc
    ELSE IF children[i] \notin DOMAIN Nodes
    THEN CollectChildren(children, i + 1, acc, stack)
    ELSE IF stack = 0 THEN [acc EXCEPT !.ok = FALSE]
    ELSE CollectChildren(children, i + 1,
            CollectChildren(GetChildren(children[i]), 1,
                            [acc EXCEPT !.result = Append(@, children[i])],
                            stack - 1),
            stack)

collectThreadMessages(messageID, acc, stack) ==
    CollectChildren(GetChildren(messageID), 1, acc, stack)

\* GetThread: empty for an unknown root, else the root and what
\* collectThreadMessages appends.
GetThread(rootID) ==
    IF rootID \notin DOMAIN Nodes THEN [ok |-> TRUE, result |-> <<>>]
    ELSE collectThreadMessages(rootID, [ok |-> TRUE, result |-> <<rootID>>], MaxStack)

Max(a, b) == IF a > b THEN a ELSE b

\* calculateDepth
RECURSIVE DepthOfChildren(_, _, _, _)
DepthOfChildren(children, i, acc, stack) ==
    IF ~acc.ok \/ i > Len(children) THEN acc
    ELSE IF stack = 0 THEN [acc EXCEPT !.ok = FALSE]
    ELSE LET sub == GetChildren(children[i])
             d == IF Len(sub) = 0
                  THEN [ok |-> TRUE, depth |-> acc.current + 1]
                  ELSE DepthOfChildren(sub, 1,
                          [ok |-> TRUE, depth |-> acc.current + 1,
                           current |-> acc.current + 1], stack - 1) IN
         DepthOfChildren(children, i + 1,
            [acc EXCEPT !.ok = d.ok, !.depth = Max(acc.depth, d.depth)], stack)

\* Mutant: the depth of a message with children is one level, whatever
\* lies below them.
calculateDepth_Shallow(messageID, currentDepth, stack) ==
    IF Len(GetChildren(messageID)) = 0
    THEN [ok |-> TRUE, depth |-> currentDepth]
    ELSE [ok |-> TRUE, depth |-> currentDepth + 1]

calculateDepth(messageID, currentDepth, stack) ==
    IF Len(GetChildren(messageID)) = 0
    THEN [ok |-> TRUE, depth |-> currentDepth]
    ELSE LET r == DepthOfChildren(GetChildren(messageID), 1,
                    [ok |-> TRUE, depth |-> currentDepth,
                     current |-> currentDepth], stack) IN
         [ok |-> r.ok, depth |-> r.depth]

\* GetThreadDepth
GetThreadDepth(rootID) ==
    IF rootID \notin DOMAIN Nodes THEN [ok |-> TRUE, depth |-> 0]
    ELSE calculateDepth(rootID, 0, MaxStack)

RECURSIVE SumDepths(_)
SumDepths(i) ==
    IF i > Len(ThreadRoots) THEN [ok |-> TRUE, depth |-> 0]
    ELSE LET d == GetThreadDepth(ThreadRoots[i])
             rest == SumDepths(i + 1) IN
         [ok |-> d.ok /\ rest.ok, depth |-> d.depth + rest.depth]

\* Stats; the average depth is kept as its numerator, the denominator being
\* thread_count.
Stats ==
    [ok |-> SumDepths(1).ok,
     total_messages |-> Cardinality(DOMAIN Nodes),
     thread_count |-> Len(ThreadRoots),
     reply_messages |-> Cardinality(DOMAIN Nodes) - Len(ThreadRoots),
     messages_with_replies |->
        Cardinality({p \in DOMAIN Adjacency : Len(Adjacency[p]) > 0}),
     total_depth |-> SumDepths(1).depth]

\* Ids a caller may ask about: message ids, and the thread ids messages carry.
QueryIds ==
    UNION {{m.id, m.thread_id, m.parent_id} : m \in GraphInputs} \ {Empty}

\* BuildFromNormalizedMessages, one AddMessage at a time.
GraphAdd ==
    /\ Len(added) < MaxAdds
    /\ \E m \in GraphInputs : AddMessage(m)
    /\ query' = NoQuery
    /\ UNCHANGED <<rlVars, histVars, normVars, storeVars, fileVars, sideVars, fetchVars, classVars, normLog>>

\* GetThread, GetThreadDepth and Stats on the graph as it stands.
GraphQuery ==
    /\ added # <<>>
    /\ \E id \in QueryIds :
        query' = [root |-> id, asked |-> TRUE, thread |-> GetThread(id),
                  depth |-> GetThreadDepth(id), stats |-> Stats]
    /\ UNCHANGED <<Nodes, Adjacency, ThreadRoots, added>>
    /\ UNCHANGED <<rlVars, histVars, normVars, storeVars, fileVars, sideVars, fetchVars, classVars, normLog>>

GraphInit == RLInit

GraphNext == GraphAdd \/ GraphQuery

SpecGraph == GraphInit /\ [][GraphNext]_vars

\* The graph was built from messages of the normalize package.
FromNormalized == added # <<>> /\ FamilyOf(added[1]) = "normalized"

Range(f) == {f[i] : i \in DOMAIN f}

\* C12 as stated: for every non-root message m of a graph built from
\* normalized messages, Thread(m.thread_id) contains m.
C12_Original ==
    (FromNormalized /\ query.asked) =>
        \A i \in DOMAIN Nodes :
            (~Nodes[i].is_thread_root /\ query.root = Nodes[i].thread_id)
                => i \in Range(query.thread.result)

\* C12 (amended): Thread takes a root message id. For every non-root
\* message m whose parent, the thread's root message, is a node of the
\* graph, Thread(m.parent_id) contains m; Thread(m.thread_id) is empty, a
\* thread id being no message id.
C12_ThreadOfParentContains ==
    (FromNormalized /\ query.asked) =>
        \A i \in DOMAIN Nodes :
            ~Nodes[i].is_thread_root =>
                /\ (query.root = Nodes[i].parent_id /\ query.root \in DOMAIN Nodes)
                        => (query.thread.ok /\ i \in Range(query.thread.result))
                /\ query.root = Nodes[i].thread_id => query.thread.result = <<>>

\* The thread of a root that has a reply in the graph was asked for, and
\* then the thread named by the reply's thread_id.
C12_Witness ==
    /\ FromNormalized
    /\ query.asked
    /\ \E i \in DOMAIN Nodes :
        /\ ~Nodes[i].is_thread_root
        /\ query.root = Nodes[i].parent_id
        /\ query.root \in DOMAIN Nodes
        /\ Len(query.thread.result) >= 2

\* The messages reachable from the ids S along at most n child links.
RECURSIVE ReachFrom(_, _)
ReachFrom(S, n) ==
    IF n = 0 THEN S
    ELSE ReachFrom(S \cup UNION {Range(GetChildren(x)) : x \in S}, n - 1)

Descendants(id) == ReachFrom(Range(GetChildren(id)), MaxStack)

\* C13: Thread(rootId) is empty for an id that is no node; otherwise it
\* starts with the root, holds the root and all its descendants, each
\* exactly once, and each message other than the root after its parent.
C13_ThreadPreOrder ==
    query.asked =>
        LET t == query.thread.result IN
        /\ query.thread.ok
        /\ query.root \notin DOMAIN Nodes => t = <<>>
        /\ query.root \in DOMAIN Nodes =>
            /\ t[1] = query.root
            /\ Range(t) = {query.root} \cup Descendants(query.root)
            /\ \A j, k \in DOMAIN t : j # k => t[j] # t[k]
            /\ \A k \in DOMAIN t :
                k > 1 => \E j \in 1..(k - 1) : t[j] = Nodes[t[k]].parent_id

\* C14: Thread(rootId) terminates on every graph, cyclic parent links
\* included.
C14_ThreadTerminates ==
    query.asked => query.thread.ok

\* No message reachable from id is its own descendant.
AcyclicFrom(id) ==
    \A x \in {id} \cup Descendants(id) : x \notin Descendants(x)

\* The claim's definition of depth: 0 without children, else 1 plus the
\* largest depth of a child.
RECURSIVE LongestPath(_, _)
LongestPath(id, n) ==
    LET kids == Range(GetChildren(id)) IN
    IF kids = {} \/ n = 0 THEN 0
    ELSE LET depths == {LongestPath(c, n - 1) : c \in kids} IN
         1 + CHOOSE d \in depths : \A e \in depths : e <= d

\* C15: where the longest path from the root to a leaf exists (no message
\* below the root is its own descendant), Depth(rootId) is 0 for a root
\* without children and otherwise 1 plus the maximum Depth of its children.
C15_DepthIsLongestPath ==
    (query.asked /\ query.root \in DOMAIN Nodes /\ AcyclicFrom(query.root)) =>
        /\ query.depth.ok
        /\ query.depth.depth = LongestPath(query.root, MaxStack)
        /\ GetChildren(query.root) = <<>> => query.depth.depth = 0

\* The depth of a linear chain of three messages was asked for.
C15_Witness ==
    /\ query.asked
    /\ query.root \in DOMAIN Nodes
    /\ AcyclicFrom(query.root)
    /\ query.depth.depth = 2
    /\ Cardinality(DOMAIN Nodes) = 3

\* C16: for a graph built from a sequence of N messages of which R are
\* thread roots, Stats reports reply_messages = N - R.
C16_ReplyMessages ==
    query.asked =>
        query.stats.reply_messages =
            Len(added) - Cardinality({i \in DOMAIN added : added[i].is_thread_root})

(***************************************************************************)
(* Normalizing a record again (SlackToNormalized, normalizeSlackMessage)   *)
(***************************************************************************)

\* Message texts as Slack delivers them: a labelled and a bare user
\* mention, an escaped entity, plain text.
SlackTexts == {"<@U1|bob>", "<@U1>", "&amp;lt;", "hello"}

\* normalizeSlackText: mentions become @label or @ID, then &lt;, &gt; and
\* &amp; are unescaped, in this order.
normalizeSlackText(text) ==
    CASE text = "<@U1|bob>" -> "@bob"
      [] text = "<@U1>" -> "@U1"
      [] text = "&amp;lt;" -> "&lt;"
      [] OTHER -> text

\* A root and a reply of one thread.
RenormNatives ==
    {n \in SlackNatives :
        /\ n.ts \in ValidTs
        /\ n.thread_ts \in {"", "1700000001.000100"}
        /\ (n.thread_ts = "") = (n.ts = "1700000001.000100")}

\* Mutant: the time of normalization enters the message id.
NormalizeAt_Stamped(via, n, text, at) ==
    [id |-> Normalize(via, n).msg.id \o <<at>>,
     content |-> IF via = "normalize" THEN normalizeSlackText(text) ELSE text,
     normalized_at |-> at]

\* What a normalizer returns for a record at a given time: SlackToNormalized
\* cleans the text, normalizeSlackMessage keeps it; NormalizedAt is time.Now().
NormalizeAt(via, n, text, at) ==
    [id |-> Normalize(via, n).msg.id,
     content |-> IF via = "normalize" THEN normalizeSlackText(text) ELSE text,
     normalized_at |-> at]

Renormalize ==
    /\ Cardinality(normLog) < MaxNorms
    /\ \E via \in Pipelines, n \in RenormNatives, text \in SlackTexts :
        normLog' = normLog \cup
            {[via |-> via, native |-> n, text |-> text,
              out |-> NormalizeAt(via, n, text, now)]}
    /\ UNCHANGED <<rlVars, histVars, normVars, storeVars, fileVars, sideVars, fetchVars,
                   graphVars, classVars>>

RenormTick ==
    /\ Tick
    /\ UNCHANGED <<histVars, normVars, storeVars, fileVars, sideVars, fetchVars,
                   graphVars, classVars, normLog>>

RenormNext == Renormalize \/ RenormTick

SpecRenorm == RLInit /\ [][RenormNext]_vars

UpperCase == <<"A", "B", "C", "D", "E", "F", "G", "H", "I", "J", "K", "L", "M", "N", "O", "P", "Q", "R", "S", "T", "U", "V", "W", "X", "Y", "Z">>
LowerCase == <<"a", "b", "c", "d", "e", "f", "g", "h", "i", "j", "k", "l", "m", "n", "o", "p", "q", "r", "s", "t", "u", "v", "w", "x", "y", "z">>

\* strings.ToLower
ToLowerChar(c) ==
    IF \E i \in 1..Len(UpperCase) : UpperCase[i] = c
    THEN LowerCase[CHOOSE i \in 1..Len(UpperCase) : UpperCase[i] = c]
    ELSE c

ToLower(s) == [i \in 1..Len(s) |-> ToLowerChar(s[i])]

\* strings.Contains
Contains(s, substr) ==
    \E i \in 0..(Len(s) - Len(substr)) : SubSeq(s, i + 1, i + Len(substr)) = substr

\* The token occurs as a whole word: no letter right before or after it.
ContainsWord(s, substr) ==
    \E i \in 0..(Len(s) - Len(substr)) :
        /\ SubSeq(s, i + 1, i + Len(substr)) = substr
        /\ (i = 0 \/ \A k \in 1..Len(LowerCase) : LowerCase[k] # s[i])
        /\ (i + Len(substr) = Len(s)
                \/ \A k \in 1..Len(LowerCase) : LowerCase[k] # s[i + Len(substr) + 1])

\* strings.HasPrefix
HasPrefix(s, prefix) ==
    Len(prefix) <= Len(s) /\ SubSeq(s, 1, Len(prefix)) = prefix

WhiteSpace == {" ", "\n", "\t"}

\* strings.TrimSpace
RECURSIVE TrimSpace(_)
TrimSpace(s) ==
    IF s = <<>> THEN s
    ELSE IF Head(s) \in WhiteSpace THEN TrimSpace(Tail(s))
    ELSE IF s[Len(s)] \in WhiteSpace THEN TrimSpace(SubSeq(s, 1, Len(s) - 1))
    ELSE s

\* The first phrase of a list found in the content (for ... break), 0 if none.
FirstContained(phrases, content) ==
    LET hits == {i \in 1..Len(phrases) : Contains(content, phrases[i])} IN
    IF hits = {} THEN 0 ELSE CHOOSE i \in hits : \A j \in hits : i <= j

FirstPrefix(phrases, content) ==
    LET hits == {i \in 1..Len(phrases) : HasPrefix(content, phrases[i])} IN
    IF hits = {} THEN 0 ELSE CHOOSE i \in hits : \A j \in hits : i <= j

\* if confidence > 1.0 { confidence = 1.0 }
Cap(confidence) == IF confidence > 100 THEN 100 ELSE confidence

\* One signal, or none.
Signal(fired, s) == IF fired THEN <<s>> ELSE <<>>

Score(fired, points) == IF fired THEN points ELSE 0

\* classifyQuestion: questionStarters
questionStarters ==
    <<<<"h", "o", "w", " ", "d", "o", " ", "i">>,
      <<"h", "o", "w", " ", "c", "a", "n", " ", "i">>,
      <<"h", "o", "w", " ", "t", "o">>,
      <<"h", "o", "w", " ", "w", "o", "u", "l", "d">>,
      <<"w", "h", "a", "t", " ", "i", "s">>,
      <<"w", "h", "a", "t", "'", "s">>,
      <<"w", "h", "a", "t", " ", "a", "r", "e">>,
      <<"w", "h", "a", "t", " ", "i", "f">>,
      <<"w", "h", "e", "r", "e", " ", "i", "s">>,
      <<"w", "h", "e", "r", "e", " ", "c", "a", "n">>,
      <<"w", "h", "e", "r", "e", " ", "d", "o">>,
      <<"w", "h", "e", "n", " ", "s", "h", "o", "u", "l", "d">>,
      <<"w", "h", "e", "n", " ", "d", "o">>,
      <<"w", "h", "e", "n", " ", "i", "s">>,
      <<"w", "h", "y", " ", "d", "o", "e", "s">>,
      <<"w", "h", "y", " ", "i", "s">>,
      <<"w", "h", "y", " ", "w", "o", "u", "l", "d">>,
      <<"w", "h", "o", " ", "c", "a", "n">>,
      <<"w", "h", "o", " ", "i", "s">>,
      <<"w", "h", "o", " ", "k", "n", "o", "w", "s">>,
      <<"c", "a", "n", " ", "s", "o", "m", "e", "o", "n", "e">>,
      <<"c", "a", "n", " ", "a", "n", "y", "o", "n", "e">>,
      <<"c", "o", "u", "l", "d", " ", "s", "o", "m", "e", "o", "n", "e">>,
      <<"i", "s", " ", "t", "h", "e", "r", "e">>,
      <<"a", "r", "e", " ", "t", "h", "e", "r", "e">>,
      <<"d", "o", "e", "s", " ", "a", "n", "y", "o", "n", "e">>,
      <<"d", "o", "e", "s", " ", "s", "o", "m", "e", "o", "n", "e">>,
      <<"h", "a", "s", " ", "a", "n", "y", "o", "n", "e">>,
      <<"h", "a", "s", " ", "s", "o", "m", "e", "o", "n", "e">>,
      <<"s", "h", "o", "u", "l", "d", " ", "i">>,
      <<"w", "o", "u", "l", "d", " ", "i", "t">>,
      <<"a", "n", "y", " ", "i", "d", "e", "a", "s">>,
      <<"a", "n", "y", "o", "n", "e", " ", "k", "n", "o", "w">>>>

\* classifyQuestion: helpPhrases
helpPhrases ==
    <<<<"h", "e", "l", "p">>,
      <<"s", "t", "u", "c", "k">>,
      <<"i", "s", "s", "u", "e">>,
      <<"p", "r", "o", "b", "l", "e", "m">>,
      <<"e", "r", "r", "o", "r">>,
      <<"n", "o", "t", " ", "w", "o", "r", "k", "i", "n", "g">>,
      <<"d", "o", "e", "s", "n", "'", "t", " ", "w", "o", "r", "k">>,
      <<"c", "a", "n", "'", "t", " ", "g", "e", "t">>,
      <<"u", "n", "a", "b", "l", "e", " ", "t", "o">>,
      <<"t", "r", "y", "i", "n", "g", " ", "t", "o">>,
      <<"n", "e", "e", "d", " ", "t", "o">>,
      <<"w", "a", "n", "t", " ", "t", "o">>,
      <<"a", "n", "y", "o", "n", "e", " ", "e", "l", "s", "e">>,
      <<"h", "a", "s", " ", "a", "n", "y", "o", "n", "e">>>>

\* classifyAnswer: answerPhrases
answerPhrases ==
    <<<<"y", "o", "u", " ", "c", "a", "n">>,
      <<"y", "o", "u", " ", "s", "h", "o", "u", "l", "d">>,
      <<"y", "o", "u", " ", "n", "e", "e", "d", " ", "t", "o">>,
      <<"y", "o", "u", " ", "h", "a", "v", "e", " ", "t", "o">>,
      <<"t", "r", "y", " ", "t", "h", "i", "s">>,
      <<"t", "r", "y", " ", "u", "s", "i", "n", "g">>,
      <<"t", "r", "y", " ", "a", "d", "d", "i", "n", "g">>,
      <<"t", "h", "e", " ", "s", "o", "l", "u", "t", "i", "o", "n">>,
      <<"t", "h", "e", " ", "a", "n", "s", "w", "e", "r">>,
      <<"t", "h", "e", " ", "f", "i", "x">>,
      <<"i", " ", "t", "h", "i", "n", "k">>,
      <<"i", " ", "b", "e", "l", "i", "e", "v", "e">>,
      <<"i", " ", "s", "u", "g", "g", "e", "s", "t">>,
      <<"h", "e", "r", "e", "'", "s", " ", "h", "o", "w">>,
      <<"h", "e", "r", "e", " ", "i", "s", " ", "h", "o", "w">>,
      <<"c", "h", "e", "c", "k", " ", "o", "u", "t">>,
      <<"t", "a", "k", "e", " ", "a", " ", "l", "o", "o", "k">>,
      <<"y", "o", "u", " ", "m", "i", "g", "h", "t", " ", "w", "a", "n", "t">>,
      <<"y", "o", "u", " ", "c", "o", "u", "l", "d">>>>

\* classifySolution: solutionPhrases
solutionPhrases ==
    <<<<"t", "r", "y", " ", "t", "h", "i", "s">>,
      <<"t", "r", "y", " ", "a", "d", "d", "i", "n", "g">>,
      <<"t", "r", "y", " ", "c", "h", "a", "n", "g", "i", "n", "g">>,
      <<"h", "e", "r", "e", "'", "s", " ", "a", " ", "f", "i", "x">>,
      <<"h", "e", "r", "e", "'", "s", " ", "t", "h", "e", " ", "f", "i", "x">>,
      <<"h", "e", "r", "e", "'", "s", " ", "h", "o", "w">>,
      <<"y", "o", "u", " ", "c", "a", "n", " ", "f", "i", "x">>,
      <<"t", "o", " ", "f", "i", "x", " ", "t", "h", "i", "s">>,
      <<"t", "h", "e", " ", "f", "i", "x", " ", "i", "s">>,
      <<"t", "h", "e", " ", "s", "o", "l", "u", "t", "i", "o", "n">>,
      <<"s", "o", "l", "u", "t", "i", "o", "n", " ", "i", "s">>,
      <<"t", "h", "i", "s", " ", "s", "h", "o", "u", "l", "d", " ", "w", "o", "r", "k">>,
      <<"t", "h", "i", "s", " ", "w", "i", "l", "l", " ", "w", "o", "r", "k">>,
      <<"t", "h", "i", "s", " ", "f", "i", "x", "e", "s">>,
      <<"t", "h", "i", "s", " ", "s", "o", "l", "v", "e", "d">>>>

\* classifySolution: docPatterns
docPatterns ==
    <<<<"d", "o", "c", "s", ".">>,
      <<"d", "o", "c", "u", "m", "e", "n", "t", "a", "t", "i", "o", "n">>,
      <<"/", "d", "o", "c", "s", "/">>,
      <<"s", "t", "a", "c", "k", "o", "v", "e", "r", "f", "l", "o", "w">>,
      <<"g", "i", "t", "h", "u", "b", ".", "c", "o", "m">>,
      <<"t", "u", "t", "o", "r", "i", "a", "l">>,
      <<"e", "x", "a", "m", "p", "l", "e">>,
      <<"g", "u", "i", "d", "e">>>>

\* classifyAcknowledgment: thankPhrases
thankPhrases ==
    <<<<"t", "h", "a", "n", "k">>,
      <<"t", "h", "a", "n", "k", "s">>,
      <<"t", "h", "x">>,
      <<"t", "y">>,
      <<"a", "p", "p", "r", "e", "c", "i", "a", "t", "e">>,
      <<"g", "r", "a", "t", "e", "f", "u", "l">>>>

\* classifyAcknowledgment: successPhrases
successPhrases ==
    <<<<"w", "o", "r", "k", "e", "d">>,
      <<"w", "o", "r", "k", "s">>,
      <<"w", "o", "r", "k", "i", "n", "g">>,
      <<"f", "i", "x", "e", "d">>,
      <<"s", "o", "l", "v", "e", "d">>,
      <<"r", "e", "s", "o", "l", "v", "e", "d">>,
      <<"t", "h", "a", "t", " ", "d", "i", "d", " ", "i", "t">>,
      <<"t", "h", "a", "t", " ", "w", "o", "r", "k", "e", "d">>,
      <<"t", "h", "a", "t", " ", "f", "i", "x", "e", "d">>,
      <<"p", "e", "r", "f", "e", "c", "t">>,
      <<"e", "x", "a", "c", "t", "l", "y", " ", "w", "h", "a", "t", " ", "i", " ", "n", "e", "e", "d", "e", "d">>,
      <<"t", "h", "i", "s", " ", "s", "o", "l", "v", "e", "d">>,
      <<"t", "h", "i", "s", " ", "f", "i", "x", "e", "d">>,
      <<"g", "o", "t", " ", "i", "t", " ", "w", "o", "r", "k", "i", "n", "g">>,
      <<"g", "o", "t", " ", "i", "t", " ", "t", "o", " ", "w", "o", "r", "k">>>>

\* classifyAcknowledgment: positiveIndicators; an emoji is one character
positiveIndicators ==
    <<<<"U+1F44D">>,
      <<"U+2713">>,
      <<"U+2714">>,
      <<":", "+", "1", ":">>,
      <<":", "c", "h", "e", "c", "k", ":">>,
      <<":", "w", "h", "i", "t", "e", "_", "c", "h", "e", "c", "k", "_", "m", "a", "r", "k", ":">>,
      <<"a", "w", "e", "s", "o", "m", "e">>,
      <<"g", "r", "e", "a", "t">>,
      <<"e", "x", "c", "e", "l", "l", "e", "n", "t">>,
      <<"b", "r", "i", "l", "l", "i", "a", "n", "t">>>>

\* classifyAcknowledgment: affirmatives
affirmatives ==
    <<<<"y", "e", "s", "!">>,
      <<"y", "e", "p">>,
      <<"y", "u", "p">>,
      <<"y", "e", "a", "h">>,
      <<"p", "e", "r", "f", "e", "c", "t">>,
      <<"e", "x", "a", "c", "t", "l", "y">>>>

\* len(msg.Content) > 100
SubstantiveLength == 100

Digits == {"0", "1", "2", "3", "4", "5", "6", "7", "8", "9"}

\* The phrase a for ... break loop stopped at.
PhraseAt(phrases, i) == IF i = 0 THEN <<>> ELSE phrases[i]

\* classifyQuestion
classifyQuestion(msg) ==
    LET content == ToLower(msg.content)
        mark == Contains(content, <<"?">>)
        starter == FirstPrefix(questionStarters, content)
        help == FirstContained(helpPhrases, content)
        signals ==
            Signal(mark, <<"question_mark">>)
            \o Signal(starter > 0, <<"question_starter", PhraseAt(questionStarters, starter)>>)
            \o Signal(help > 0, <<"help_phrase", PhraseAt(helpPhrases, help)>>)
        confidence == Score(mark, 40) + Score(starter > 0, 50) + Score(help > 0, 20) IN
    IF signals = <<>> \/ Cap(confidence) < 20 THEN <<>>
    ELSE <<[type |-> "question", confidence |-> Cap(confidence), signals |-> signals]>>

\* Mutant: being in a question thread is enough for an answer.
classifyAnswer_BaseOnly(msg, ctx) ==
    IF ~ctx.HasQuestion THEN <<>>
    ELSE IF ctx.IsThreadRoot THEN <<>>
    ELSE <<[type |-> "answer", confidence |-> 30,
            signals |-> <<<<"in_question_thread">>>>]>>

\* classifyAnswer
classifyAnswer(msg, ctx) ==
    IF ~ctx.HasQuestion THEN <<>>
    ELSE IF ctx.IsThreadRoot THEN <<>>
    ELSE
    LET content == ToLower(msg.content)
        phrase == FirstContained(answerPhrases, content)
        code == msg.code_blocks > 0
        urls == Len(msg.urls) > 0
        long == Len(msg.content) > SubstantiveLength
        signals ==
            <<<<"in_question_thread">>>>
            \o Signal(phrase > 0, <<"answer_phrase", PhraseAt(answerPhrases, phrase)>>)
            \o Signal(code, <<"contains_code">>)
            \o Signal(urls, <<"contains_urls">>)
            \o Signal(long, <<"substantive_length">>)
        confidence == 30 + Score(phrase > 0, 20) + Score(code, 20)
                         + Score(urls, 10) + Score(long, 10) IN
    IF Len(signals) <= 1 THEN <<>>
    ELSE <<[type |-> "answer", confidence |-> Cap(confidence), signals |-> signals]>>

\* (?m)^p: p at the start of the text or of a line.
StartsLine(content, p) ==
    HasPrefix(content, p) \/ Contains(content, <<"\n">> \o p)

\* first.*then.*finally, the dot matching no line break.
FirstThenFinally(content) ==
    \E i \in 1..(Len(content) - 15) :
        /\ SubSeq(content, i, i + 4) = <<"f", "i", "r", "s", "t">>
        /\ \E j \in (i + 5)..(Len(content) - 10) :
            /\ SubSeq(content, j, j + 3) = <<"t", "h", "e", "n">>
            /\ \E k \in (j + 4)..(Len(content) - 6) :
                /\ SubSeq(content, k, k + 6) = <<"f", "i", "n", "a", "l", "l", "y">>
                /\ \A x \in i..(k + 6) : content[x] # "\n"

\* classifySolution: stepPatterns
ContainsSteps(content) ==
    \/ StartsLine(content, <<"1", ".">>) \/ StartsLine(content, <<"1", ")">>)
    \/ StartsLine(content, <<"-", " ">>) \/ StartsLine(content, <<"*", " ">>)
    \/ StartsLine(content, <<"U+2022", " ">>)
    \/ FirstThenFinally(content)
    \/ \E d \in Digits : Contains(content, <<"s", "t", "e", "p", " ">> \o <<d>>)

\* One reference_url signal for each URL that holds a docPattern.
RECURSIVE ReferenceUrls(_, _)
ReferenceUrls(urls, i) ==
    IF i > Len(urls) THEN <<>>
    ELSE Signal(FirstContained(docPatterns, ToLower(urls[i])) > 0, <<"reference_url">>)
            \o ReferenceUrls(urls, i + 1)

\* classifySolution
classifySolution(msg) ==
    LET content == ToLower(msg.content)
        code == msg.code_blocks > 0
        phrase == FirstContained(solutionPhrases, content)
        steps == ContainsSteps(content)
        refs == ReferenceUrls(msg.urls, 1)
        signals ==
            Signal(code, <<"code_block">>)
            \o Signal(phrase > 0, <<"solution_phrase", PhraseAt(solutionPhrases, phrase)>>)
            \o Signal(steps, <<"contains_steps">>)
            \o refs
        confidence == Score(code, 40) + Score(phrase > 0, 30) + Score(steps, 20)
                         + 25 * Len(refs) IN
    IF signals = <<>> \/ Cap(confidence) < 25 THEN <<>>
    ELSE <<[type |-> "solution", confidence |-> Cap(confidence), signals |-> signals]>>

\* classifyAcknowledgment
classifyAcknowledgment(msg) ==
    LET content == ToLower(msg.content)
        thanks == FirstContained(thankPhrases, content)
        success == FirstContained(successPhrases, content)
        positive == \E i \in 1..Len(positiveIndicators) :
                        \/ Contains(content, positiveIndicators[i])
                        \/ Contains(msg.content, positiveIndicators[i])
        contentTrimmed == TrimSpace(content)
        affirmed == {i \in 1..Len(affirmatives) :
                        \/ contentTrimmed = affirmatives[i]
                        \/ contentTrimmed = affirmatives[i] \o <<"!">>}
        affirm == IF affirmed = {} THEN 0
                  ELSE CHOOSE i \in affirmed : \A j \in affirmed : i <= j
        signals ==
            Signal(thanks > 0, <<"thanks", PhraseAt(thankPhrases, thanks)>>)
            \o Signal(success > 0, <<"success", PhraseAt(successPhrases, success)>>)
            \o Signal(positive, <<"positive_indicator">>)
            \o Signal(affirm > 0, <<"affirmative", PhraseAt(affirmatives, affirm)>>)
        confidence == Score(thanks > 0, 30) + Score(success > 0, 40)
                         + Score(positive, 20) + Score(affirm > 0, 25) IN
    IF signals = <<>> \/ Cap(confidence) < 20 THEN <<>>
    ELSE <<[type |-> "acknowledgment", confidence |-> Cap(confidence),
            signals |-> signals]>>

\* A nil *ThreadContext.
NoContext == [present |-> FALSE, HasQuestion |-> FALSE, IsThreadRoot |-> FALSE]

\* ClassifyMessage: question, answer (with a thread context only),
\* solution, acknowledgment, in this order.
ClassifyMessage(msg, threadContext) ==
    classifyQuestion(msg)
    \o (IF threadContext.present THEN classifyAnswer(msg, threadContext) ELSE <<>>)
    \o classifySolution(msg)
    \o classifyAcknowledgment(msg)

\* ---------------------------------------------------------------------
\* Classification runs and what they persist
\* ---------------------------------------------------------------------

MaxRuns == 2

Gritty == <<"T", "h", "e", " ", "c", "i", "t", "y", " ", "s", "t", "r", "e", "e", "t", "s", " ", "w", "e", "r", "e", " ", "g", "r", "i", "t", "t", "y", " ", "a", "f", "t", "e", "r", " ", "t", "h", "e", " ", "s", "t", "o", "r", "m", ".">>

TySoMuch == <<"t", "y", " ", "s", "o", " ", "m", "u", "c", "h", "!">>

RECURSIVE Repeat(_, _)
Repeat(s, n) == IF n = 0 THEN <<>> ELSE s \o Repeat(s, n - 1)

\* More than SubstantiveLength characters, no phrase of any list.
LongContent == Repeat(<<"z", "z", "z", "z", " ">>, 21)

DocUrl == <<"h", "t", "t", "p", "s", ":", "/", "/", "d", "o", "c", "s", ".", "e", "x", "a", "m", "p", "l", "e", ".", "c", "o", "m", "/", "x">>

Plain(content) == [content |-> content, code_blocks |-> 0, urls |-> <<>>]

\* NormalizedMessage, the fields the detectors read: Content, the number
\* of CodeBlocks, URLs.
ClassifyMessages ==
    { Plain(Gritty), Plain(TySoMuch), Plain(<<"T", "h", "a", "n", "k", "s", "!", " ", "T", "h", "a", "t", " ", "w", "o", "r", "k", "e", "d", " ", "p", "e", "r", "f", "e", "c", "t", "l", "y", ".">>), Plain(<<"I", " ", "s", "t", "i", "l", "l", " ", "h", "a", "v", "e", " ", "t", "h", "e", " ", "s", "a", "m", "e", " ", "i", "s", "s", "u", "e">>),
      Plain(<<"H", "o", "w", " ", "d", "o", " ", "I", " ", "f", "i", "x", " ", "t", "h", "i", "s", "?">>), Plain(<<"Y", "o", "u", " ", "c", "a", "n", " ", "f", "i", "x", " ", "t", "h", "i", "s", " ", "b", "y", " ", "u", "p", "d", "a", "t", "i", "n", "g", " ", "y", "o", "u", "r", " ", "c", "o", "n", "f", "i", "g", " ", "f", "i", "l", "e">>), Plain(<<"Y", "e", "p">>), Plain(LongContent),
      Plain(<<"N", "o", "t", "e", "d", ".">>),
      [content |-> <<"T", "r", "y", " ", "t", "h", "i", "s", " ", "s", "o", "l", "u", "t", "i", "o", "n", ":">>, code_blocks |-> 1, urls |-> <<>>],
      [content |-> <<"s", "e", "e">>, code_blocks |-> 0, urls |-> <<DocUrl>>] }

\* threadContextMap[msg.ID]: nil, or HasQuestion and IsThreadRoot.
ThreadContexts ==
    {NoContext}
    \cup [present : {TRUE}, HasQuestion : BOOLEAN, IsThreadRoot : BOOLEAN]

\* The classification loop's calls: a message, its context and what
\* ClassifyMessage returns for them.
ClassifyRuns ==
    {[msg |-> m, ctx |-> c, out |-> ClassifyMessage(m, c)] :
        m \in ClassifyMessages, c \in ThreadContexts}

ClassifiedId == <<"msg", "m1">>

Runs == IF lastRun.ran THEN lastRun.n ELSE 0

\* SaveClassifications: nothing is written for an empty list, otherwise
\* classifications.json of the message is replaced.
SaveClassifications(files, id, out) ==
    IF Len(out) = 0 THEN files
    ELSE [k \in DOMAIN files \cup {id} |-> IF k = id THEN out ELSE files[k]]

\* SaveClassification: INSERT ... ON CONFLICT(message_id, type) DO UPDATE.
SaveClassification(rows, id, class) ==
    {r \in rows : ~(r.message_id = id /\ r.type = class.type)}
    \cup {[message_id |-> id, type |-> class.type,
           confidence |-> class.confidence, signals |-> class.signals]}

RECURSIVE SaveEach(_, _, _, _)
SaveEach(rows, id, out, i) ==
    IF i > Len(out) THEN rows
    ELSE SaveEach(SaveClassification(rows, id, out[i]), id, out, i + 1)

Ran(store, r) ==
    [ran |-> TRUE, n |-> Runs + 1, store |-> store, id |-> ClassifiedId,
     msg |-> r.msg, ctx |-> r.ctx, out |-> r.out]

\* One message of the classification loop of a fetch: ClassifyMessage,
\* then SaveClassifications when something fired.
ClassifyToFile ==
    /\ Runs < MaxRuns
    /\ \E r \in ClassifyRuns :
        /\ annotations' = IF Len(r.out) > 0
                             THEN SaveClassifications(annotations, ClassifiedId, r.out)
                             ELSE annotations
        /\ lastRun' = Ran("file", r)
    /\ UNCHANGED <<rlVars, histVars, normVars, storeVars, fileVars, sideVars, fetchVars,
                   graphVars, normLog, classifications>>

\* ClassifyMessage, then SaveClassification for each classification.
ClassifyToDb ==
    /\ Runs < MaxRuns
    /\ \E r \in ClassifyRuns :
        /\ classifications' = SaveEach(classifications, ClassifiedId, r.out, 1)
        /\ lastRun' = Ran("db", r)
    /\ UNCHANGED <<rlVars, histVars, normVars, storeVars, fileVars, sideVars, fetchVars,
                   graphVars, normLog, annotations>>

ClassifyInit == RLInit

ClassifyNext == ClassifyToFile \/ ClassifyToDb

SpecClassify == ClassifyInit /\ [][ClassifyNext]_vars

\* LoadClassifications / GetClassifications: what is stored for a message.
Persisted(store, id) ==
    IF store = "file"
    THEN IF id \in DOMAIN annotations THEN Range(annotations[id]) ELSE {}
    ELSE {[type |-> r.type, confidence |-> r.confidence, signals |-> r.signals] :
            r \in {x \in classifications : x.message_id = id}}

OfType(out, type) == {i \in 1..Len(out) : out[i].type = type}

\* C18: after a message is classified again, what is persisted for it is
\* exactly the output of the latest run: every (message_id, type) record
\* is the new one and a type that fired before but not now is gone.
C18_PersistedIsLatestRun ==
    lastRun.ran =>
        Persisted(lastRun.store, lastRun.id) = Range(lastRun.out)

\* C19: the thanks signal of the acknowledgment detector fires only where
\* a thanks token stands as a whole word: the gritty-city sentence gets no
\* acknowledgment, "ty so much!" gets one.
C19_ThanksWholeWord ==
    lastRun.ran =>
        LET out == lastRun.out
            content == ToLower(lastRun.msg.content) IN
        /\ \A i \in OfType(out, "acknowledgment") :
             \A k \in 1..Len(out[i].signals) :
                out[i].signals[k][1] = "thanks"
                    => \E p \in 1..Len(thankPhrases) :
                            ContainsWord(content, thankPhrases[p])
        /\ lastRun.msg.content = Gritty => OfType(out, "acknowledgment") = {}
        /\ lastRun.msg.content = TySoMuch => OfType(out, "acknowledgment") # {}

\* A signal of the answer detector other than being in a question thread.
BeyondBase(msg) ==
    \/ FirstContained(answerPhrases, ToLower(msg.content)) > 0
    \/ msg.code_blocks > 0
    \/ Len(msg.urls) > 0
    \/ Len(msg.content) > SubstantiveLength

\* C20: no answer classification without a thread context, with
\* HasQuestion false, or for the thread root; otherwise an answer only
\* if a signal beyond the in-a-question-thread base fired.
C20_AnswerNeedsMoreThanBase ==
    lastRun.ran =>
        LET answers == OfType(lastRun.out, "answer")
            ctx == lastRun.ctx IN
        /\ (~ctx.present \/ ~ctx.HasQuestion \/ ctx.IsThreadRoot) => answers = {}
        /\ answers # {} =>
             /\ BeyondBase(lastRun.msg)
             /\ \A i \in answers : Len(lastRun.out[i].signals) > 1

\* A reply in a question thread got an answer classification with the
\* base signal and one more.
C20_Witness ==
    /\ lastRun.ran
    /\ lastRun.ctx.present /\ lastRun.ctx.HasQuestion /\ ~lastRun.ctx.IsThreadRoot
    /\ \E i \in OfType(lastRun.out, "answer") :
        /\ lastRun.out[i].signals[1] = <<"in_question_thread">>
        /\ Len(lastRun.out[i].signals) = 2

(***************************************************************************)
(* The message cache of the Slack client: GetMessages over                 *)
(* loadMessagesFromCache, FetchMessages and saveMessagesToCache            *)
(***************************************************************************)
MaxGets == 3           \* GetMessages calls
MaxPosts == 2          \* messages posted to the channel
MaxWall == 25          \* the cache's clock stops here, one hour past midnight

DayHours == 24

\* time.Now().Format("2006-01-02")
Today(t) == t \div DayHours

\* The zero time.Time: no --since given.
ZeroTime == -1

\* A since date in the past, as ParseSinceDate gives it.
PastTime == 10

Oldests == {ZeroTime, PastTime}

\* The Message with timestamp ts; every second one is a thread reply.
Posted(n, ts) ==
    [Type |-> "message", User |-> "U1", Text |-> "m", Timestamp |-> ts,
     ThreadTS |-> IF n % 2 = 0 THEN WallStart ELSE 0]

\* json.Marshal of a Message: thread_ts is omitempty.
MarshalMessage(m) ==
    LET keys == {"type", "user", "text", "ts"}
                \cup (IF m.ThreadTS = 0 THEN {} ELSE {"thread_ts"}) IN
    [k \in keys |-> CASE k = "type" -> m.Type
                      [] k = "user" -> m.User
                      [] k = "text" -> m.Text
                      [] k = "ts" -> m.Timestamp
                      [] k = "thread_ts" -> m.ThreadTS]

\* json.Unmarshal into a Message: a missing key leaves the zero value.
UnmarshalMessage(j) ==
    [Type |-> j["type"], User |-> j["user"], Text |-> j["text"],
     Timestamp |-> j["ts"],
     ThreadTS |-> IF "thread_ts" \in DOMAIN j THEN j["thread_ts"] ELSE 0]

\* loadMessagesFromCache: nil on a miss (no file for today, or a file
\* fetched before since), else the messageCache of today's file.
CacheMiss == [hit |-> FALSE]

loadMessagesFromCache(since) ==
    IF Today(wall) \notin DOMAIN cacheFiles THEN CacheMiss
    ELSE LET cache == cacheFiles[Today(wall)] IN
         IF since # ZeroTime /\ cache.FetchedAt < since THEN CacheMiss
         ELSE [hit |-> TRUE, Messages |-> cache.Messages]

\* FetchMessages: conversations.history, with oldest when it is not zero.
FetchMessages(oldest) ==
    SelectSeq(history, LAMBDA m : oldest = ZeroTime \/ m.Timestamp > oldest)

\* saveMessagesToCache: nothing is written for no messages, otherwise
\* today's file is replaced.
saveMessagesToCache(files, msgs, fails) ==
    IF Len(msgs) = 0 \/ fails THEN files
    ELSE [d \in DOMAIN files \cup {Today(wall)} |->
            IF d = Today(wall)
            THEN [Date |-> Today(wall), FetchedAt |-> wall, Messages |-> msgs]
            ELSE files[d]]

Map(f(_), s) == [i \in 1..Len(s) |-> f(s[i])]

CacheUnchanged ==
    UNCHANGED <<rlVars, histVars, normVars, storeVars, fileVars, fetchVars,
                raceVars, slackVars, ctxVars, graphVars, classVars, normLog>>

Got(oldest, api, err, warned, msgs) ==
    [oldest |-> oldest, at |-> wall, posted |-> Len(history), api |-> api,
     err |-> err, warned |-> warned, messages |-> msgs]

\* GetMessages, cache hit: the cached messages, converted back.
GetMessagesHit ==
    /\ Len(gets) < MaxGets
    /\ \E oldest \in Oldests :
        LET cache == loadMessagesFromCache(oldest) IN
        /\ cache.hit
        /\ gets' = Append(gets, Got(oldest, FALSE, FALSE, FALSE,
                                    Map(UnmarshalMessage, cache.Messages)))
    /\ UNCHANGED <<history, cacheFiles, wall>>
    /\ CacheUnchanged

\* GetMessages, cache miss: FetchMessages, then saveMessagesToCache, whose
\* failure is only a warning.
GetMessagesMiss ==
    /\ Len(gets) < MaxGets
    /\ \E oldest \in Oldests, saveFails \in BOOLEAN :
        LET cache == loadMessagesFromCache(oldest)
            msgs == FetchMessages(oldest) IN
        /\ ~cache.hit
        /\ cacheFiles' = saveMessagesToCache(cacheFiles,
                                             Map(MarshalMessage, msgs), saveFails)
        /\ gets' = Append(gets, Got(oldest, TRUE, FALSE, saveFails, msgs))
    /\ UNCHANGED <<history, wall>>
    /\ CacheUnchanged

\* GetMessages, cache miss and the API call fails: the error is returned.
GetMessagesFails ==
    /\ Len(gets) < MaxGets
    /\ \E oldest \in Oldests :
        /\ ~loadMessagesFromCache(oldest).hit
        /\ gets' = Append(gets, Got(oldest, TRUE, TRUE, FALSE, <<>>))
    /\ UNCHANGED <<history, cacheFiles, wall>>
    /\ CacheUnchanged

\* Somebody posts to the channel.
Post ==
    /\ Len(history) < MaxPosts
    /\ history' = Append(history, Posted(Len(history) + 1, wall))
    /\ UNCHANGED <<cacheFiles, wall, gets>>
    /\ CacheUnchanged

\* An hour passes.
CacheTick ==
    /\ wall < MaxWall
    /\ wall' = wall + 1
    /\ UNCHANGED <<history, cacheFiles, gets>>
    /\ CacheUnchanged

CacheInit == RLInit

CacheNext ==
    GetMessagesHit \/ GetMessagesMiss \/ GetMessagesFails \/ Post \/ CacheTick

SpecCache == CacheInit /\ [][CacheNext]_vars

\* Call i + 1 repeats call i at once: the same arguments, no time passed,
\* nothing posted, and call i returned its messages and cached without
\* a warning.
RepeatedAtOnce(i) ==
    /\ gets[i + 1].oldest = gets[i].oldest
    /\ gets[i + 1].at = gets[i].at
    /\ gets[i + 1].posted = gets[i].posted
    /\ ~gets[i].err /\ ~gets[i].warned

\* C21: GetMessages is cache-aside: a request repeated at once with the
\* same arguments makes no API call and returns the same messages.
C21_CacheAside ==
    \A i \in 1..(Len(gets) - 1) :
        RepeatedAtOnce(i) =>
            /\ ~gets[i + 1].api
            /\ ~gets[i + 1].err
            /\ gets[i + 1].messages = gets[i].messages

(***************************************************************************)
(* Several invocations of the fetch command on one database: each does     *)
(* CheckRateLimit, the API call, RecordRequest on the same key.            *)
(***************************************************************************)

RaceUnchanged ==
    UNCHANGED <<histVars, normVars, storeVars, fileVars, fetchVars, cacheVars,
                slackVars, ctxVars, graphVars, classVars, normLog>>

\* CheckRateLimit by one invocation; a rejection ends its run.
RaceCheck(p) ==
    /\ ppc[p] = "idle"
    /\ LET out == CheckOutcome(rate_limits, SearchKey, now) IN
       /\ rate_limits' = out.rows
       /\ ret' = [op |-> "Check", key |-> SearchKey, allowed |-> out.allowed]
       /\ ppc' = [ppc EXCEPT ![p] = IF out.allowed THEN "call" ELSE "idle"]
    /\ UNCHANGED now
    /\ RaceUnchanged

\* SearchMessages returns, with a result or with an error.
RaceCall(p) ==
    /\ ppc[p] = "call"
    /\ \E ok \in BOOLEAN : ppc' = [ppc EXCEPT ![p] = IF ok THEN "record" ELSE "idle"]
    /\ UNCHANGED rlVars
    /\ RaceUnchanged

\* RecordRequest after the call succeeded.
RaceRecord(p) ==
    /\ ppc[p] = "record"
    /\ RecordRequest(SearchKey, MaxRecorded)
    /\ ppc' = [ppc EXCEPT ![p] = "idle"]
    /\ RaceUnchanged

RaceTick ==
    /\ Tick
    /\ UNCHANGED ppc
    /\ RaceUnchanged

RaceInit == FetchStartState /\ workspace = {}

RaceNext ==
    \/ \E p \in Procs : RaceCheck(p)
    \/ \E p \in Procs : RaceCall(p)
    \/ \E p \in Procs : RaceRecord(p)
    \/ RaceTick

SpecRace == RaceInit /\ [][RaceNext]_vars

\* Invocations that passed Check and have not recorded yet.
Permits == Cardinality({p \in Procs : ppc[p] \in {"call", "record"}})

\* C24: nothing makes check-then-record atomic: invocations sharing a key
\* pass Check on the same count, so requests_made goes above safety_limit
\* inside one window, by at most one request for each further invocation.
C24_RacePastSafetyLimit ==
    HasState(SearchKey) =>
        StateOf(SearchKey).requests_made + Permits
            <= StateOf(SearchKey).safety_limit + NProcs - 1

\* Two invocations interleaved: requests_made is above safety_limit, the
\* window still open.
C24_Witness ==
    /\ HasState(SearchKey)
    /\ StateOf(SearchKey).requests_made > StateOf(SearchKey).safety_limit
    /\ now <= StateOf(SearchKey).window_start
                + StateOf(SearchKey).window_duration_seconds

\* C25: with one invocation of the command using the keys, requests_made
\* of a key never goes above its safety_limit.
C25_SingleProcessWithinLimit ==
    \A i \in DOMAIN rate_limits :
        rate_limits[i].requests_made <= rate_limits[i].safety_limit

\* The run recorded the request that filled a key's window.
C25_Witness ==
    /\ ret.op = "Record"
    /\ HasState(ret.key)
    /\ StateOf(ret.key).requests_made = StateOf(ret.key).safety_limit
    /\ now <= StateOf(ret.key).window_start + StateOf(ret.key).window_duration_seconds

(***************************************************************************)
(* The order of Check, API call and Record in a fetch run                  *)
(***************************************************************************)

\* The endpoints runFetchSlack calls under the rate limiter.
Limited == {SearchKey[3], RepliesKey[3]}

\* The call at position i directly follows a Check on its endpoint that
\* returned true.
Guarded(i) ==
    /\ i > 1
    /\ events[i - 1] = Event("check", events[i].endpoint, TRUE)

\* Each successful call on an endpoint of E is directly followed by one
\* Record on it, and each Record directly follows a successful call.
RecordsFollowSuccess(E) ==
    \A i \in 1..Len(events) :
        /\ (events[i].ev = "call" /\ events[i].endpoint \in E /\ events[i].ok) =>
            /\ i < Len(events)
            /\ events[i + 1] = Event("record", events[i].endpoint, TRUE)
        /\ events[i].ev = "record" =>
            /\ i > 1
            /\ events[i - 1] = Event("call", events[i].endpoint, TRUE)

StoredReplies == {m \in messages : m.parent_id # Empty}

\* C27: after a fetch run, with or without skipped items or an early stop,
\* the parent_id of every stored reply names a stored message of the same
\* thread_id.
C27_ParentsStored ==
    pc = "done" =>
        \A m \in StoredReplies :
            \E p \in messages : p.id = m.parent_id /\ p.thread_id = m.thread_id

\* The run went through without a rate-limit rejection and without a failed
\* fetch, normalization or save.
CleanRun ==
    /\ pc = "done"
    /\ outcome = "ok"
    /\ rejectedAt = "no"
    /\ nFailed = 0

\* C30: in a fetch run without rejection or failure, every message the
\* search returned is stored at the end of the run, directly or as part of
\* its fetched thread.
C30_MatchesStored ==
    CleanRun =>
        \A r \in results :
            \E m \in messages : m.id = NormalizeSlackMessage(r).msg.id

(***************************************************************************)
(* Re-ingestion of a stored message                                        *)
(***************************************************************************)

\* The fields of a stored message that are not derived from its content.
Identity(m) ==
    [id |-> m.id, source_type |-> m.source_type, date |-> m.date,
     thread_id |-> m.thread_id, parent_id |-> m.parent_id,
     is_thread_root |-> m.is_thread_root]

\* A save leaves every row of the messages table with its identity.
RowsKeepIdentity ==
    \A r \in messages : \E q \in messages' : Identity(q) = Identity(r)

\* A save leaves every by_id file with its identity.
FilesKeepIdentity ==
    \A i \in DOMAIN by_id :
        i \in DOMAIN by_id' /\ Identity(by_id'[i]) = Identity(by_id[i])

\* C28: saving a message whose id is already stored changes only the
\* content-derived fields of the stored record; id, source, timestamp,
\* thread_id, parent_id and is_thread_root keep the values first stored, in
\* the messages table and in the by_id files.
C28_ReingestKeepsIdentity == [][RowsKeepIdentity /\ FilesKeepIdentity]_vars

(***************************************************************************)
(* ThreadContext assembly (fetchWorkspaceData, runFetchGitHub)             *)
(***************************************************************************)

MaxNormalized == 3

ContextThreads == {"t1", "t2"}
ContextAuthors == {"U1", "U2"}

\* A question and a message on which no detector fires.
ContextContents ==
    {<<"H", "o", "w", " ", "d", "o", " ", "I", " ", "f", "i", "x", " ", "t", "h", "i", "s", "?">>,
     <<"N", "o", "t", "e", "d", ".">>}

\* NormalizedMessage, the fields the assembly and the detectors read.
ContextMessages ==
    [thread_id : ContextThreads, author : ContextAuthors,
     is_thread_root : {FALSE}, content : ContextContents,
     code_blocks : {0}, urls : {<<>>}]

\* classify.ClassifyMessage(m, nil) returned a classification of type
\* "question".
Asking ==
    UNION {IF OfType(ClassifyMessage(m, NoContext), "question") # {} THEN {m} ELSE {} :
            m \in ContextMessages}

QuestionFires(m) == m \in Asking

\* The inner loop over normalizedMessages for the message at position i:
\* every m with m.ThreadID == msg.ThreadID is classified, msg itself too.
Scanned(msgs, i) == {j \in 1..Len(msgs) : msgs[j].thread_id = msgs[i].thread_id}

Askers(msgs, i) == {j \in Scanned(msgs, i) : QuestionFires(msgs[j])}

LastOf(S) == CHOOSE x \in S : \A y \in S : y <= x

\* threadContextMap[msg.ID] = &classify.ThreadContext{...}: questionAuthor
\* is overwritten by each later asker.
AssembleContext(msgs, i) ==
    [present |-> TRUE,
     HasQuestion |-> Askers(msgs, i) # {},
     QuestionAuthor |-> IF Askers(msgs, i) = {} THEN ""
                        ELSE msgs[LastOf(Askers(msgs, i))].author,
     IsThreadRoot |-> msgs[i].is_thread_root]

\* The normalization loop appends a message that was normalized and saved.
ContextAppend ==
    /\ Len(normalizedMessages) < MaxNormalized
    /\ threadContextMap = <<>>
    /\ \E m \in ContextMessages :
        normalizedMessages' = Append(normalizedMessages, m)
    /\ UNCHANGED threadContextMap
    /\ UNCHANGED <<rlVars, histVars, normVars, storeVars, fileVars, fetchVars,
                   cacheVars, raceVars, slackVars, graphVars, classVars, normLog>>

\* The loop that fills threadContextMap.
ContextAssemble ==
    /\ normalizedMessages # <<>>
    /\ threadContextMap = <<>>
    /\ threadContextMap' =
            [i \in 1..Len(normalizedMessages) |->
                AssembleContext(normalizedMessages, i)]
    /\ UNCHANGED normalizedMessages
    /\ UNCHANGED <<rlVars, histVars, normVars, storeVars, fileVars, fetchVars,
                   cacheVars, raceVars, slackVars, graphVars, classVars, normLog>>

ContextInit == RLInit

ContextNext == ContextAppend \/ ContextAssemble

SpecContext == ContextInit /\ [][ContextNext]_vars

\* C29: the assembled ThreadContext of a message has HasQuestion = true if
\* and only if the Question detector, run without context, fires on some
\* other message with its thread_id; the message's own content does not
\* count.
C29_OthersOnly ==
    \A i \in DOMAIN threadContextMap :
        threadContextMap[i].HasQuestion <=>
            \E j \in DOMAIN normalizedMessages :
                /\ j # i
                /\ normalizedMessages[j].thread_id = normalizedMessages[i].thread_id
                /\ QuestionFires(normalizedMessages[j])
====
